---- MODULE Spec2Model ----
(***************************************************************************)
(* A model of gopkgbuild: the PKGBUILD tokenizer (lex.go), the two record  *)
(* builders of pkgbuild.go (the "sourced" variant, which reads the output *)
(* of bash set, and the SRCINFO variant, which keeps dependencies          *)
(* as parsed constraints), the dependency parser and the Newer/Older       *)
(* comparison of records.                                                  *)
(*                                                                         *)
(* Go strings are byte sequences: a string is modelled as a sequence of    *)
(* bytes (0..255), positions are 0-based as in the source, and runes are   *)
(* obtained by UTF-8 decoding as range and utf8.DecodeRuneInString do.     *)
(***************************************************************************)
EXTENDS Integers, Sequences, FiniteSets, TLC

\* ------------------------------------------------------------------ bounds

\* Longest input of the sourced parser, in lines.
MaxLines == 4
\* Longest input of the SRCINFO parser, in lines taken in catalogue order.
MaxSrcinfoLines == 6
\* Longest sequence of parseDependency calls on one list.
MaxCalls == 3
\* Largest epoch and pkgrel of the records that are compared.
MaxNum == 2

\* The lines of an input of SpecLines
MaxKindLines == 2
\* The tokens of a version string of SpecVer
MaxVerTokens == 3
\* Largest epoch and pkgrel of the records that are rendered
MaxEpoch == 4
MaxPkgrel == 12
\* Largest epoch and pkgrel of the records of a chain of comparisons
MaxChainNum == 1

\* The tokens of a dependency string at most
MaxNameTokens == 3

\* The pieces of an input after its first key at most
MaxLexPieces == 3

\* ------------------------------------------------------- strings as bytes

AsciiLow == " !\"#$%&"
AsciiMid == "()*+,-./0123456789:;<=>?@ABCDEFGHIJKLMNOPQRSTUVWXYZ[\\]^_"
AsciiHigh == "abcdefghijklmnopqrstuvwxyz{|}~"

CharsOf(s) == {SubSeq(s, i, i) : i \in 1..Len(s)}

IndexIn(s, c) == CHOOSE i \in 1..Len(s) : SubSeq(s, i, i) = c

\* The byte of each one-character literal. The single quote (byte 39,
\* written Quote below) and the backquote (byte 96) are in no literal.
AsciiCode ==
    [c \in CharsOf(AsciiLow) \cup CharsOf(AsciiMid) \cup CharsOf(AsciiHigh)
            \cup {"\n"} |->
        IF c = "\n" THEN 10
        ELSE IF c \in CharsOf(AsciiLow) THEN 31 + IndexIn(AsciiLow, c)
        ELSE IF c \in CharsOf(AsciiMid) THEN 39 + IndexIn(AsciiMid, c)
        ELSE 96 + IndexIn(AsciiHigh, c)]

Ord(c) == AsciiCode[c]

\* The bytes of an ASCII string literal.
Bytes(s) == [i \in 1..Len(s) |-> Ord(SubSeq(s, i, i))]

Quote == <<39>>

\* s[from:to], the slice of a Go string by byte offsets.
Slice(s, from, to) == SubSeq(s, from + 1, to)

RECURSIVE JoinLines(_)
\* strings.Join(lines, "\n")
JoinLines(lines) ==
    IF lines = <<>> THEN <<>>
    ELSE IF Len(lines) = 1 THEN lines[1]
    ELSE lines[1] \o <<10>> \o JoinLines(Tail(lines))

\* strings.HasPrefix(SubSeq of s from byte offset p, old)
HasPrefixAt(s, p, old) ==
    /\ p + Len(old) <= Len(s)
    /\ Slice(s, p, p + Len(old)) = old

RECURSIVE ReplaceFrom(_, _, _, _)
ReplaceFrom(s, p, old, new) ==
    IF p >= Len(s) THEN <<>>
    ELSE IF HasPrefixAt(s, p, old)
    THEN new \o ReplaceFrom(s, p + Len(old), old, new)
    ELSE <<s[p + 1]>> \o ReplaceFrom(s, p + 1, old, new)

\* strings.Replace(s, old, new, -1) for a non-empty old
ReplaceAll(s, old, new) == ReplaceFrom(s, 0, old, new)

eof == -1

IsCont(s, p) == p < Len(s) /\ s[p + 1] >= 128 /\ s[p + 1] <= 191

\* utf8.DecodeRuneInString(s[p:]) for p < len(s): the rune and its width.
\* One- to three-byte encodings are decoded; any other byte sequence gives
\* (utf8.RuneError, 1), that is (U+FFFD, 1), as an invalid encoding does.
DecodeRune(s, p) ==
    LET b0 == s[p + 1] IN
    IF b0 < 128 THEN [r |-> b0, w |-> 1]
    ELSE IF b0 >= 194 /\ b0 <= 223 /\ IsCont(s, p + 1)
    THEN [r |-> (b0 - 192) * 64 + (s[p + 2] - 128), w |-> 2]
    ELSE IF b0 >= 224 /\ b0 <= 239 /\ IsCont(s, p + 1) /\ IsCont(s, p + 2)
          /\ (b0 - 224) * 4096 + (s[p + 2] - 128) * 64 + (s[p + 3] - 128) >= 2048
    THEN [r |-> (b0 - 224) * 4096 + (s[p + 2] - 128) * 64 + (s[p + 3] - 128),
          w |-> 3]
    ELSE [r |-> 65533, w |-> 1]

RECURSIVE RunesFrom(_, _)
RunesFrom(s, p) ==
    IF p >= Len(s) THEN <<>>
    ELSE <<DecodeRune(s, p).r>> \o RunesFrom(s, p + DecodeRune(s, p).w)

\* The runes that for _, r := range s yields, in order.
Runes(s) == RunesFrom(s, 0)

\* uint8(r): the conversion keeps the low 8 bits
Uint8(r) == r % 256

\* ------------------------------------------------------ character classes

\* unicode.IsDigit, for the runes up to U+07FF the inputs hold
UnicodeIsDigit(r) == r >= 48 /\ r <= 57

\* unicode.IsLetter, for the runes up to U+07FF the inputs hold: ASCII,
\* Latin-1, Latin Extended-A and the Greek letters.
UnicodeIsLetter(r) ==
    \/ r >= 65 /\ r <= 90
    \/ r >= 97 /\ r <= 122
    \/ r \in {170, 181, 186}
    \/ r >= 192 /\ r <= 383 /\ r \notin {215, 247}
    \/ r >= 913 /\ r <= 969 /\ r # 930

isAlphaNumericUnderscore(r) ==
    r = Ord("_") \/ UnicodeIsLetter(r) \/ UnicodeIsDigit(r)

isLowerAlpha(c) == Ord("a") <= c /\ c <= Ord("z")

isDigit(c) == Ord("0") <= c /\ c <= Ord("9")

isAlphaNumeric(c) ==
    isDigit(c) \/ isLowerAlpha(c) \/ (Ord("A") <= c /\ c <= Ord("Z"))

isValidPkgnameChar(c) ==
    \/ isLowerAlpha(c)
    \/ isDigit(c)
    \/ c \in {Ord("@"), Ord("."), Ord("_"), Ord("+"), Ord("-")}

isValidPkgverChar(c) ==
    isAlphaNumeric(c) \/ c \in {Ord("_"), Ord("+"), Ord(".")}

\* ------------------------------------------------------------------ state

VARIABLES
    l,          \* the lexer struct: input, state, pos, start, width, lastPos
    items,      \* the unbuffered channel of the lexer: <<>> or the item being sent
    recvd,      \* history: the items nextItem has returned, in order
    eofInArray, \* history: l.next() returned eof inside lexArray(Value)
    pc,         \* where the goroutine that called parsePKGBUILD stands
    local,      \* the locals of parse and of its helper that is running
    pkgbuild,   \* the record parse is filling, NilRecord before it exists
    ret,        \* what parse and parsePKGBUILD returned, once they have
    cmp,        \* the two records Newer and Older are applied to
    dep         \* the list parseDependency is called on, and the last call

vars == <<l, items, recvd, eofInArray, pc, local, pkgbuild, ret, cmp, dep>>

lexerVars == <<l, items, recvd, eofInArray>>
parserVars == <<pc, local, pkgbuild, ret>>

\* ------------------------------------------------------------------ lexer

\* The variables map: the names that get a token and the token of each.
variablesTable ==
    << <<"pkgname", "itemPkgname">>, <<"pkgver", "itemPkgver">>,
       <<"pkgrel", "itemPkgrel">>, <<"pkgdir", "itemPkgdir">>,
       <<"epoch", "itemEpoch">>, <<"pkgbase", "itemPkgbase">>,
       <<"pkgdesc", "itemPkgdesc">>, <<"arch", "itemArch">>,
       <<"url", "itemURL">>, <<"license", "itemLicense">>,
       <<"groups", "itemGroups">>, <<"depends", "itemDepends">>,
       <<"optdepends", "itemOptdepends">>,
       <<"makedepends", "itemMakedepends">>,
       <<"checkdepends", "itemCheckdepends">>,
       <<"provides", "itemProvides">>, <<"conflicts", "itemConflicts">>,
       <<"replaces", "itemReplaces">>, <<"backup", "itemBackup">>,
       <<"options", "itemOptions">>, <<"install", "itemInstall">>,
       <<"changelog", "itemChangelog">>, <<"source", "itemSource">>,
       <<"noextract", "itemNoextract">>, <<"md5sums", "itemMd5sums">>,
       <<"sha1sums", "itemSha1sums">>, <<"sha256sums", "itemSha256sums">>,
       <<"sha384sums", "itemSha384sums">>,
       <<"sha512sums", "itemSha512sums">> >>

variables ==
    [name \in {Bytes(variablesTable[i][1]) : i \in 1..Len(variablesTable)} |->
        variablesTable[CHOOSE i \in 1..Len(variablesTable) :
                           Bytes(variablesTable[i][1]) = name][2]]

\* The message of the error token lexVariable sends.
invalidVariable == Bytes("invalid valriable or function")

\* lexer.next: the rune at l.pos and its width, (eof, 0) at the end
NextRune(s, p) ==
    IF p >= Len(s) THEN [r |-> eof, w |-> 0] ELSE DecodeRune(s, p)

\* The item lexer.emit(t) sends: the text from l.start to l.pos.
emit(lx, t) ==
    [typ |-> t, pos |-> lx.start, val |-> Slice(lx.input, lx.start, lx.pos)]

\* lex(input): the lexer as the constructor leaves it, its goroutine
\* about to run lexEnv.
lex(input) ==
    [input |-> input, state |-> "lexEnv", pos |-> 0, start |-> 0,
     width |-> 0, lastPos |-> 0]

\* A lexer that does not wait for its item to be received
LexerRunsAhead(state) == l.state = state

\* A send on the unbuffered channel completes when nextItem receives it:
\* the goroutine of the lexer runs only while no item is being sent.
LexerRuns(state) == l.state = state /\ items = <<>>

lexEnv ==
    /\ LexerRuns("lexEnv")
    /\ LET n == NextRune(l.input, l.pos) IN
        IF n.r = eof
        THEN /\ items' = <<emit(l, "itemEOF")>>
             /\ l' = [l EXCEPT !.state = "nil", !.width = 0, !.start = l.pos]
        ELSE IF isAlphaNumericUnderscore(n.r)
        THEN /\ items' = items
             /\ l' = [l EXCEPT !.state = "lexVariable", !.width = n.w]
        ELSE /\ items' = items
             /\ l' = [l EXCEPT !.state = "lexNewline", !.width = n.w,
                               !.pos = l.pos + n.w]
    /\ UNCHANGED <<recvd, eofInArray, parserVars, cmp, dep>>

RECURSIVE IdentEnd(_, _)
\* lexVariable absorbs identifier runes: the offset of the first other rune
IdentEnd(s, p) ==
    LET n == NextRune(s, p) IN
    IF n.r # eof /\ isAlphaNumericUnderscore(n.r)
    THEN IdentEnd(s, p + n.w) ELSE p

lexVariable ==
    /\ LexerRuns("lexVariable")
    /\ LET q == IdentEnd(l.input, l.pos)
           n == NextRune(l.input, q)
           variable == Slice(l.input, l.start, q)
       IN
        IF n.r = Ord("=")
        THEN IF variable \in DOMAIN variables
             THEN \* emit, then l.next() over the "=" and l.ignore()
                  /\ items' = <<emit([l EXCEPT !.pos = q], variables[variable])>>
                  /\ l' = [l EXCEPT !.state = "lexValueType", !.width = 1,
                                    !.pos = q + 1, !.start = q + 1]
             ELSE /\ items' = items
                  /\ l' = [l EXCEPT !.state = "lexNewline", !.width = 1,
                                    !.pos = q]
        ELSE IF n.r = Ord(" ") \/ n.r = Ord("(")
        THEN /\ items' = items
             /\ l' = [l EXCEPT !.state = "lexNewline", !.width = 1,
                               !.pos = q + 1]
        ELSE \* errorf: the error token, and no further state
             /\ items' = <<[typ |-> "itemError", pos |-> l.start,
                            val |-> invalidVariable]>>
             /\ l' = [l EXCEPT !.state = "nil", !.width = n.w,
                               !.pos = q + n.w]
    /\ UNCHANGED <<recvd, eofInArray, parserVars, cmp, dep>>

lexValueType ==
    /\ LexerRuns("lexValueType")
    /\ LET n == NextRune(l.input, l.pos) IN
        IF n.r = Ord("(")
        THEN l' = [l EXCEPT !.state = "lexArray", !.width = 1,
                            !.pos = l.pos + 1]
        ELSE IF n.r = Quote[1]
        THEN l' = [l EXCEPT !.state = "lexValue", !.width = 1,
                            !.pos = l.pos + 1, !.start = l.pos + 1]
        ELSE l' = [l EXCEPT !.state = "lexValue", !.width = n.w]
    /\ UNCHANGED <<items, recvd, eofInArray, parserVars, cmp, dep>>

RECURSIVE ValueEnd(_, _)
\* lexValue absorbs up to the end of the line or of the input, or up to a
\* single quote that the end of the line follows
ValueEnd(s, p) ==
    LET n == NextRune(s, p) IN
    IF n.r = eof \/ n.r = 10 THEN p
    ELSE IF n.r = Quote[1] /\ NextRune(s, p + 1).r = 10 THEN p
    ELSE ValueEnd(s, p + n.w)

lexValue ==
    /\ LexerRuns("lexValue")
    /\ LET q == ValueEnd(l.input, l.pos) IN
        /\ items' = <<emit([l EXCEPT !.pos = q], "itemValue")>>
        /\ l' = [l EXCEPT !.state = "lexNewline", !.pos = q, !.start = q,
                          !.width = IF q >= Len(l.input) THEN 0 ELSE 1]
    /\ UNCHANGED <<recvd, eofInArray, parserVars, cmp, dep>>

RECURSIVE ArrayValueEnd(_, _)
\* lexArrayValue absorbs up to a double quote that no backslash precedes
\* (l.input[l.pos-2] once the quote is read): its offset, or eof when the
\* input ends first
ArrayValueEnd(s, p) ==
    LET n == NextRune(s, p) IN
    IF n.r = eof THEN eof
    ELSE IF n.r = Ord("\"") /\ s[p] # Ord("\\") THEN p
    ELSE ArrayValueEnd(s, p + n.w)

lexArrayValue ==
    /\ LexerRuns("lexArrayValue")
    /\ LET q == ArrayValueEnd(l.input, l.pos) IN
        IF q # eof
        THEN \* backup, emit, then l.next() over the quote
             /\ items' = <<emit([l EXCEPT !.pos = q], "itemArrayValue")>>
             /\ l' = [l EXCEPT !.state = "lexArray", !.width = 1,
                               !.pos = q + 1, !.start = q]
             /\ UNCHANGED eofInArray
        ELSE \* l.next() returns eof for ever: the loop has no way out
             /\ items' = items
             /\ l' = [l EXCEPT !.width = 0, !.pos = Len(l.input)]
             /\ eofInArray' = TRUE
    /\ UNCHANGED <<recvd, parserVars, cmp, dep>>

RECURSIVE ArrayNext(_, _)
\* lexArray ignores up to a double quote or a closing parenthesis: its
\* offset, or eof when the input ends first
ArrayNext(s, p) ==
    LET n == NextRune(s, p) IN
    IF n.r = eof THEN eof
    ELSE IF n.r = Ord("\"") \/ n.r = Ord(")") THEN p
    ELSE ArrayNext(s, p + n.w)

lexArray ==
    /\ LexerRuns("lexArray")
    /\ LET p0 == IF NextRune(l.input, l.pos).r = Ord(" ")
                 THEN l.pos + 1 ELSE l.pos
           q == ArrayNext(l.input, p0)
           \* l.ignore() ran for every rune passed over in the loop
           start == IF q = p0 THEN l.start ELSE q
       IN
        IF q = eof
        THEN \* l.next() returns eof for ever: the loop has no way out
             /\ items' = items
             /\ l' = [l EXCEPT !.width = 0, !.pos = Len(l.input),
                               !.start = Len(l.input)]
             /\ eofInArray' = TRUE
        ELSE IF l.input[q + 1] = Ord("\"")
        THEN /\ items' = items
             /\ l' = [l EXCEPT !.state = "lexArrayValue", !.width = 1,
                               !.pos = q + 1, !.start = q + 1]
             /\ UNCHANGED eofInArray
        ELSE /\ items' = <<emit([l EXCEPT !.pos = q + 1, !.start = start],
                                "itemArrayEnd")>>
             /\ l' = [l EXCEPT !.state = "lexNewline", !.width = 1,
                               !.pos = q + 1, !.start = q + 1]
             /\ UNCHANGED eofInArray
    /\ UNCHANGED <<recvd, parserVars, cmp, dep>>

\* The offset lexNewline is entered at
LineStay(s, p) == p

RECURSIVE LineEnd(_, _)
\* lexNewline ignores up to the end of the line or of the input
LineEnd(s, p) ==
    LET n == NextRune(s, p) IN
    IF n.r = eof \/ n.r = 10 THEN p ELSE LineEnd(s, p + n.w)

\* A lexNewline that returns lexValue, not lexEnv: the next line is read
\* as a second value of the same key
lexNewlineToValue ==
    /\ LexerRuns("lexNewline")
    /\ LET q == LineEnd(l.input, l.pos) IN
        IF q >= Len(l.input)
        THEN l' = [l EXCEPT !.state = "lexEnv", !.width = 0, !.pos = q,
                            !.start = IF q > l.pos THEN q ELSE l.start]
        ELSE l' = [l EXCEPT !.state = "lexValue", !.width = 1, !.pos = q + 1,
                            !.start = q + 1]
    /\ UNCHANGED <<items, recvd, eofInArray, parserVars, cmp, dep>>

lexNewline ==
    /\ LexerRuns("lexNewline")
    /\ LET q == LineEnd(l.input, l.pos) IN
        IF q >= Len(l.input)
        THEN l' = [l EXCEPT !.state = "lexEnv", !.width = 0, !.pos = q,
                            !.start = IF q > l.pos THEN q ELSE l.start]
        ELSE l' = [l EXCEPT !.state = "lexEnv", !.width = 1, !.pos = q + 1,
                            !.start = q + 1]
    /\ UNCHANGED <<items, recvd, eofInArray, parserVars, cmp, dep>>

\* lexer.run: the goroutine runs the state functions until one returns nil
run ==
    \/ lexEnv
    \/ lexVariable
    \/ lexValueType
    \/ lexValue
    \/ lexArrayValue
    \/ lexArray
    \/ lexNewline

\* ------------------------------------------------- validation and parsing

\* The lookup table of the architectures
archs ==
    [name \in {Bytes("any"), Bytes("i686"), Bytes("x86_64"), Bytes("armv7h")} |->
        IF name = Bytes("any") THEN "Any"
        ELSE IF name = Bytes("i686") THEN "I686"
        ELSE IF name = Bytes("x86_64") THEN "X8664"
        ELSE "ARMv7h"]

\* check if name is a valid pkgname format
validPkgname(name) ==
    IF Len(name) < 1 THEN FALSE
    ELSE IF name[1] = Ord("-") THEN FALSE
    ELSE \A i \in 1..Len(Runes(name)) : isValidPkgnameChar(Uint8(Runes(name)[i]))

\* check if version is a valid pkgver format
validPkgver(version) ==
    IF Len(version) < 1 THEN FALSE
    ELSE IF ~isAlphaNumeric(version[1]) THEN FALSE
    ELSE LET rest == Runes(Tail(version)) IN
         \A i \in 1..Len(rest) : isValidPkgverChar(Uint8(rest[i]))

\* parse and validate a version string
parseVersion(s) ==
    IF validPkgver(s) THEN [ok |-> TRUE, val |-> s]
    ELSE [ok |-> FALSE, val |-> <<>>]

RECURSIVE DigitsValue(_, _)
DigitsValue(s, acc) ==
    IF s = <<>> THEN acc
    ELSE DigitsValue(Tail(s), 10 * acc + (s[1] - Ord("0")))

\* strconv.ParseInt(s, 10, 0) and strconv.Atoi(s): an optional sign and
\* decimal digits. The inputs are short of the range of int.
ParseInt(s) ==
    LET signed == s # <<>> /\ s[1] \in {Ord("+"), Ord("-")}
        digits == IF signed THEN Tail(s) ELSE s
    IN
    IF digits = <<>> \/ \E i \in 1..Len(digits) : ~isDigit(digits[i])
    THEN [ok |-> FALSE, val |-> 0]
    ELSE [ok |-> TRUE,
          val |-> IF signed /\ s[1] = Ord("-")
                  THEN 0 - DigitsValue(digits, 0)
                  ELSE DigitsValue(digits, 0)]

\* An element value kept as the lexer sent it
rawArrayValue(v) == v

\* parse a bash array value
parseArrayValue(v) == ReplaceAll(v, Bytes("\\\""), Bytes("\""))

\* The escaped single quote of a bash scalar, and what replaces it.
escapedQuote == Quote \o Bytes("\\") \o Quote \o Quote

\* ------------------------------------------------------------- versions

RECURSIVE SplitFrom(_, _, _)
SplitFrom(s, sep, cur) ==
    IF s = <<>> THEN <<cur>>
    ELSE IF s[1] = sep THEN <<cur>> \o SplitFrom(Tail(s), sep, <<>>)
    ELSE SplitFrom(Tail(s), sep, Append(cur, s[1]))

\* strings.Split(s, sep) for a separator of one byte
Split(s, sep) == SplitFrom(s, sep, <<>>)

\* parse a version of the form [epoch:]version[-rel]
parseCompleteVersion(s) ==
    LET byEpoch == Split(s, Ord(":"))
        epoch == IF Len(byEpoch) > 1 THEN ParseInt(byEpoch[1])
                 ELSE [ok |-> TRUE, val |-> 0]
        versions == Split(byEpoch[Len(byEpoch)], Ord("-"))
        rel == IF Len(versions) > 1 THEN ParseInt(versions[2])
               ELSE [ok |-> TRUE, val |-> 0]
    IN
    IF Len(byEpoch) > 2 THEN [ok |-> FALSE, val |-> <<>>]
    ELSE IF ~epoch.ok THEN [ok |-> FALSE, val |-> <<>>]
    ELSE IF Len(versions) > 2 THEN [ok |-> FALSE, val |-> <<>>]
    ELSE IF ~rel.ok THEN [ok |-> FALSE, val |-> <<>>]
    ELSE IF validPkgver(versions[1])
    THEN [ok |-> TRUE,
          val |-> <<[Version |-> versions[1], Epoch |-> epoch.val,
                     Pkgrel |-> rel.val]>>]
    ELSE [ok |-> FALSE, val |-> <<>>]

\* Version.bigger and rpmvercmp are called by pkgbuild.go and by the tests
\* of lex.go, but the file that defines them is not among the sources. The
\* comparison below follows the ordering rules of the specification: runs
\* of digits and runs of letters are compared pairwise, separators only
\* delimit, a run of digits is greater than a run of letters, and two runs
\* of digits compare by value. Where one version ends first it follows the
\* tables of TestVersionComparison: a version is the lesser one when what
\* is left of it starts with a letter, and the greater one otherwise.

\* The runes the version comparison tells apart
isAlphaRune(r) == UnicodeIsLetter(r)

isDigitRune(r) == UnicodeIsDigit(r)

isAlnumRune(r) == isAlphaRune(r) \/ isDigitRune(r)

RECURSIVE SkipSeparators(_, _)
\* The offset of the first letter or digit of a at or after i
SkipSeparators(a, i) ==
    IF i <= Len(a) /\ ~isAlnumRune(a[i]) THEN SkipSeparators(a, i + 1) ELSE i

RECURSIVE SegmentEnd(_, _, _)
\* The offset after the run of digits (num) or of letters that starts at i
SegmentEnd(a, i, num) ==
    IF i <= Len(a) /\ (IF num THEN isDigitRune(a[i]) ELSE isAlphaRune(a[i]))
    THEN SegmentEnd(a, i + 1, num) ELSE i

RECURSIVE StripZeros(_)
StripZeros(seg) ==
    IF seg # <<>> /\ seg[1] = Ord("0") THEN StripZeros(Tail(seg)) ELSE seg

RECURSIVE StrCmp(_, _)
\* The order of two strings by code point, a strict prefix being less
StrCmp(x, y) ==
    IF x = <<>> /\ y = <<>> THEN 0
    ELSE IF x = <<>> THEN -1
    ELSE IF y = <<>> THEN 1
    ELSE IF x[1] < y[1] THEN -1
    ELSE IF x[1] > y[1] THEN 1
    ELSE StrCmp(Tail(x), Tail(y))

\* Two runs of digits compared as strings, the leading zeros kept
NumCmpLexical(x, y) == StrCmp(x, y)

\* Two runs of digits by numeric value: without the leading zeros the
\* longer one is the greater, and runs of one length compare as strings
NumCmp(x, y) ==
    LET x0 == StripZeros(x)
        y0 == StripZeros(y)
    IN
    IF Len(x0) > Len(y0) THEN 1
    ELSE IF Len(x0) < Len(y0) THEN -1
    ELSE StrCmp(x0, y0)

RECURSIVE CompareFrom(_, _, _, _)
\* The segment-wise comparison of a from i with b from j
CompareFrom(a, i, b, j) ==
    LET one == SkipSeparators(a, i)
        two == SkipSeparators(b, j)
    IN
    IF i > Len(a) \/ j > Len(b) \/ one > Len(a) \/ two > Len(b)
    THEN \* one side is exhausted
         LET o == IF i > Len(a) \/ j > Len(b) THEN i ELSE one
             t == IF i > Len(a) \/ j > Len(b) THEN j ELSE two
         IN
         IF o > Len(a) /\ t > Len(b) THEN 0
         ELSE IF \/ o > Len(a) /\ ~isAlphaRune(b[t])
                 \/ o <= Len(a) /\ isAlphaRune(a[o])
         THEN -1
         ELSE 1
    ELSE IF one - i # two - j
    THEN IF one - i < two - j THEN -1 ELSE 1
    ELSE LET num == isDigitRune(a[one])
             e1 == SegmentEnd(a, one, num)
             e2 == SegmentEnd(b, two, num)
             s1 == SubSeq(a, one, e1 - 1)
             s2 == SubSeq(b, two, e2 - 1)
             c == IF num THEN NumCmp(s1, s2) ELSE StrCmp(s1, s2)
         IN
         IF e2 = two THEN IF num THEN 1 ELSE -1
         ELSE IF c # 0 THEN c
         ELSE CompareFrom(a, e1, b, e2)

\* The version comparison: 1 if a is the greater, -1 if b is, 0 if neither
rpmvercmp(a, b) ==
    IF a = b THEN 0 ELSE CompareFrom(Runes(a), 1, Runes(b), 1)

\* v is not less than v2
biggerOrEqual(v, v2) == rpmvercmp(v, v2) >= 0

\* Version.bigger: v is greater than v2
bigger(v, v2) == rpmvercmp(v, v2) = 1

\* A comparison that takes any difference of epoch for newer
NewerOnOtherEpoch(p, p2) ==
    IF p.Epoch # p2.Epoch THEN TRUE
    ELSE IF bigger(p.Pkgver, p2.Pkgver) THEN TRUE
    ELSE IF bigger(p2.Pkgver, p.Pkgver) THEN FALSE
    ELSE p.Pkgrel > p2.Pkgrel

\* Newer is true if p has a higher version number than p2
Newer(p, p2) ==
    IF p.Epoch < p2.Epoch THEN FALSE
    ELSE IF bigger(p.Pkgver, p2.Pkgver) THEN TRUE
    ELSE IF bigger(p2.Pkgver, p.Pkgver) THEN FALSE
    ELSE p.Pkgrel > p2.Pkgrel

\* Older is true if p has a smaller version number than p2
Older(p, p2) ==
    IF p.Epoch < p2.Epoch THEN TRUE
    ELSE IF bigger(p2.Pkgver, p.Pkgver) THEN TRUE
    ELSE IF bigger(p.Pkgver, p2.Pkgver) THEN FALSE
    ELSE p.Pkgrel < p2.Pkgrel

\* ----------------------------------------------- parse, the sourced variant

ValueFields ==
    {"itemPkgname", "itemPkgdir", "itemPkgbase", "itemPkgdesc", "itemURL",
     "itemInstall", "itemChangelog"}

NextFields == {"itemPkgver", "itemPkgrel", "itemEpoch"}

ArrayFields ==
    {"itemLicense", "itemGroups", "itemDepends", "itemOptdepends",
     "itemMakedepends", "itemCheckdepends", "itemProvides", "itemConflicts",
     "itemReplaces", "itemBackup", "itemOptions", "itemSource",
     "itemNoextract", "itemMd5sums", "itemSha1sums", "itemSha224sums",
     "itemSha256sums", "itemSha384sums", "itemSha512sums",
     "itemValidpgpkeys"}

\* The field of PKGBUILD each token of a name is stored in.
fieldOf ==
    [t \in ValueFields \cup NextFields \cup ArrayFields \cup {"itemArch"} |->
        IF t = "itemURL" THEN "URL"
        ELSE CHOOSE f \in {"Pkgname", "Pkgver", "Pkgrel", "Pkgdir", "Epoch",
                           "Pkgbase", "Pkgdesc", "Arch", "License", "Groups",
                           "Depends", "Optdepends", "Makedepends",
                           "Checkdepends", "Provides", "Conflicts",
                           "Replaces", "Backup", "Options", "Install",
                           "Changelog", "Source", "Noextract", "Md5sums",
                           "Sha1sums", "Sha224sums", "Sha256sums",
                           "Sha384sums", "Sha512sums", "Validpgpkeys"} :
                 "item" \o f = t]

\* &PKGBUILD{Epoch: 0} of the sourced variant
NewPKGBUILD ==
    [Pkgname |-> <<>>, Pkgver |-> <<>>, Pkgrel |-> 0, Pkgdir |-> <<>>,
     Epoch |-> 0, Pkgbase |-> <<>>, Pkgdesc |-> <<>>, Arch |-> <<>>,
     URL |-> <<>>, License |-> <<>>, Groups |-> <<>>, Depends |-> <<>>,
     Optdepends |-> <<>>, Makedepends |-> <<>>, Checkdepends |-> <<>>,
     Provides |-> <<>>, Conflicts |-> <<>>, Replaces |-> <<>>,
     Backup |-> <<>>, Options |-> <<>>, Install |-> <<>>,
     Changelog |-> <<>>, Source |-> <<>>, Noextract |-> <<>>,
     Md5sums |-> <<>>, Sha1sums |-> <<>>, Sha224sums |-> <<>>,
     Sha256sums |-> <<>>, Sha384sums |-> <<>>, Sha512sums |-> <<>>,
     Validpgpkeys |-> <<>>]

NoLocal == [key |-> "", token |-> <<>>, array |-> <<>>]

NoReturn == [parse |-> "none", parsePKGBUILD |-> "none", pkgb |-> <<>>]

\* lexer.nextItem: the receive that completes the send of the lexer
nextItem ==
    /\ items # <<>>
    /\ items' = <<>>
    /\ recvd' = Append(recvd, items[1])
    /\ l' = [l EXCEPT !.lastPos = items[1].pos]
    /\ UNCHANGED eofInArray

\* An error returned together with the record filled so far
ReturnErrorWithRecord ==
    /\ pc' = "done"
    /\ ret' = [parse |-> "error", parsePKGBUILD |-> "error", pkgb |-> pkgbuild]
    /\ pkgbuild' = pkgbuild
    /\ local' = NoLocal

\* return nil, err from parse, which parsePKGBUILD hands on
ReturnError ==
    /\ pc' = "done"
    /\ ret' = [parse |-> "error", parsePKGBUILD |-> "error", pkgb |-> <<>>]
    /\ pkgbuild' = pkgbuild
    /\ local' = NoLocal

\* a run-time panic (a nil pointer, an index out of range) ends the program
Panic ==
    /\ pc' = "done"
    /\ ret' = [parse |-> "panic", parsePKGBUILD |-> "panic", pkgb |-> <<>>]
    /\ pkgbuild' = pkgbuild
    /\ local' = NoLocal

SetField(field, val) ==
    /\ pkgbuild' = <<[pkgbuild[1] EXCEPT ![field] = val]>>
    /\ pc' = "parse"
    /\ local' = NoLocal
    /\ ret' = ret

\* parse: token := lexer.nextItem() and the switch on its type
parse ==
    /\ pc = "parse"
    /\ nextItem
    /\ LET token == items[1] IN
        IF token.typ \in ValueFields
        THEN /\ pc' = "parseValue"
             /\ local' = [NoLocal EXCEPT !.key = token.typ]
             /\ UNCHANGED <<pkgbuild, ret>>
        ELSE IF token.typ \in NextFields
        THEN /\ pc' = "next"
             /\ local' = [NoLocal EXCEPT !.key = token.typ]
             /\ UNCHANGED <<pkgbuild, ret>>
        ELSE IF token.typ = "itemArch"
        THEN /\ pc' = "parseArchs"
             /\ local' = [NoLocal EXCEPT !.key = token.typ]
             /\ UNCHANGED <<pkgbuild, ret>>
        ELSE IF token.typ \in ArrayFields
        THEN /\ pc' = "parseArrayValues"
             /\ local' = [NoLocal EXCEPT !.key = token.typ]
             /\ UNCHANGED <<pkgbuild, ret>>
        ELSE IF token.typ = "itemEOF"
        THEN /\ pc' = "parsePKGBUILD"
             /\ ret' = [ret EXCEPT !.parse = "ok"]
             /\ UNCHANGED <<pkgbuild, local>>
        ELSE IF token.typ = "itemError"
        THEN ReturnError
        ELSE UNCHANGED <<pc, local, pkgbuild, ret>>
    /\ UNCHANGED <<cmp, dep>>

\* What pkgver, pkgrel and epoch make of the item that follows the name:
\* the value stored, or no value when parse returns an error.
parseNext(key, val) ==
    IF key = "itemPkgver" THEN parseVersion(val)
    ELSE IF key = "itemPkgrel" THEN ParseInt(val)
    ELSE IF ParseInt(val).ok /\ ParseInt(val).val < 0
    THEN [ok |-> FALSE, val |-> 0]
    ELSE ParseInt(val)

\* parse: next := lexer.nextItem() of pkgver, pkgrel and epoch
next ==
    /\ pc = "next"
    /\ nextItem
    /\ LET got == parseNext(local.key, items[1].val) IN
        IF got.ok THEN SetField(fieldOf[local.key], got.val)
        ELSE ReturnError
    /\ UNCHANGED <<cmp, dep>>

\* parseValue without its case for an array element
parseValueScalarOnly(token) ==
    IF token.typ = "itemValue"
    THEN [returns |-> TRUE, val |-> ReplaceAll(token.val, escapedQuote, Quote)]
    ELSE [returns |-> TRUE, val |-> <<>>]

\* parseValue on its first item: the string it returns at once, or the
\* first array element it keeps while it discards the rest
parseValueFirst(token) ==
    IF token.typ = "itemValue"
    THEN [returns |-> TRUE, val |-> ReplaceAll(token.val, escapedQuote, Quote)]
    ELSE IF token.typ = "itemArrayValue"
    THEN [returns |-> FALSE, val |-> token.val]
    ELSE [returns |-> TRUE, val |-> <<>>]

\* parse a value to a correctly formatted string
parseValue ==
    /\ pc = "parseValue"
    /\ nextItem
    /\ LET first == parseValueFirst(items[1]) IN
        IF first.returns
        THEN SetField(fieldOf[local.key], first.val)
        ELSE /\ pc' = "parseValueDiscard"
             /\ local' = [local EXCEPT !.token = first.val]
             /\ UNCHANGED <<pkgbuild, ret>>
    /\ UNCHANGED <<cmp, dep>>

\* parseValue: discard all the next array items of the current array
parseValueDiscard ==
    /\ pc = "parseValueDiscard"
    /\ nextItem
    /\ IF items[1].typ # "itemArrayEnd"
       THEN UNCHANGED <<pc, local, pkgbuild, ret>>
       ELSE SetField(fieldOf[local.key], parseArrayValue(local.token))
    /\ UNCHANGED <<cmp, dep>>

\* parse array values into a string array
parseArrayValues ==
    /\ pc = "parseArrayValues"
    /\ nextItem
    /\ IF items[1].typ = "itemArrayValue"
       THEN /\ local' = [local EXCEPT
                           !.array = Append(@, parseArrayValue(items[1].val))]
            /\ UNCHANGED <<pc, pkgbuild, ret>>
       ELSE IF items[1].typ = "itemArrayEnd"
       THEN SetField(fieldOf[local.key], local.array)
       ELSE UNCHANGED <<pc, local, pkgbuild, ret>>
    /\ UNCHANGED <<cmp, dep>>

\* parse archs into an Arch array
parseArchs ==
    /\ pc = "parseArchs"
    /\ nextItem
    /\ IF items[1].typ = "itemArrayValue"
       THEN IF items[1].val \in DOMAIN archs
            THEN /\ local' = [local EXCEPT
                                !.array = Append(@, archs[items[1].val])]
                 /\ UNCHANGED <<pc, pkgbuild, ret>>
            ELSE ReturnError
       ELSE IF items[1].typ = "itemArrayEnd"
       THEN SetField("Arch", local.array)
       ELSE UNCHANGED <<pc, local, pkgbuild, ret>>
    /\ UNCHANGED <<cmp, dep>>

\* The checks of parsePKGBUILD on the record parse returned.
validRecord(pkgb) ==
    /\ validPkgname(pkgb.Pkgname)
    /\ validPkgver(pkgb.Pkgver)
    /\ Len(pkgb.Arch) # 0

\* parse a PKGBUILD and check that the required fields has a non-empty value
parsePKGBUILD ==
    /\ pc = "parsePKGBUILD"
    /\ pc' = "done"
    /\ ret' = IF validRecord(pkgbuild[1])
              THEN [ret EXCEPT !.parsePKGBUILD = "ok", !.pkgb = pkgbuild]
              ELSE [ret EXCEPT !.parsePKGBUILD = "error"]
    /\ UNCHANGED <<lexerVars, local, pkgbuild, cmp, dep>>

\* ------------------------------------------- the sourced inputs and Spec

\* The lines the inputs are made of, as bash prints the variables of a
\* sourced PKGBUILD, with the lines that are not well formed among them.
pkgnameLine == Bytes("pkgname=foo")
pkgverLine == Bytes("pkgver=1.0")
pkgrelLine == Bytes("pkgrel=1")
archLine == Bytes("arch=([0]=\"any\")")
scalarDependsLine == Bytes("depends=bar")
arrayPkgdescLine == Bytes("pkgdesc=([0]=\"v1\" [1]=\"v2\")")
invalidVariableLine == Bytes("b-x=1")
openElementLine == Bytes("depends=([0]=\"a")
openArrayLine == Bytes("license=([0]=\"b\"")

Lines ==
    {pkgnameLine, pkgverLine, pkgrelLine, archLine, scalarDependsLine,
     arrayPkgdescLine, invalidVariableLine, openElementLine, openArrayLine}

RECURSIVE SeqsUpTo(_, _)
\* The sequences of at most n members of S
SeqsUpTo(S, n) ==
    IF n = 0 THEN {<<>>}
    ELSE LET shorter == SeqsUpTo(S, n - 1) IN
         shorter \cup {Append(q, x) : q \in shorter, x \in S}

\* The sequences of at most n members of S, no member twice
DistinctSeqsUpTo(S, n) ==
    {q \in SeqsUpTo(S, n) : \A i, j \in 1..Len(q) : q[i] = q[j] => i = j}

Inputs == {JoinLines(ls) : ls \in DistinctSeqsUpTo(Lines, MaxLines)}

NoCmp == [op |-> "none"]

NoDep == [op |-> "none"]

\* parse(input) has made the record and started the lexer
Init ==
    /\ \E input \in Inputs : l = lex(input)
    /\ items = <<>>
    /\ recvd = <<>>
    /\ eofInArray = FALSE
    /\ pc = "parse"
    /\ local = NoLocal
    /\ pkgbuild = <<NewPKGBUILD>>
    /\ ret = NoReturn
    /\ cmp = NoCmp
    /\ dep = NoDep

Next ==
    \/ run
    \/ parse
    \/ next
    \/ parseValue
    \/ parseValueDiscard
    \/ parseArrayValues
    \/ parseArchs
    \/ parsePKGBUILD

Spec == Init /\ [][Next]_vars

\* ---------------------------------------------------------- dependencies

\* &Dependency{Name: name, sgt: false, slt: false}
NewDependency(name) ==
    [Name |-> name, MinVer |-> <<>>, sgt |-> FALSE, MaxVer |-> <<>>,
     slt |-> FALSE]

RECURSIVE nameLength(_)
\* parseDependency: the runes counted before the first that is not a
\* pkgname character
nameLength(runes) ==
    IF runes = <<>> THEN 0
    ELSE IF ~isValidPkgnameChar(Uint8(runes[1])) THEN 0
    ELSE 1 + nameLength(Tail(runes))

\* A search of deps that finds no entry
findNoDependency(deps, name) == {}

\* parseDependency: the entries of deps that have the name
findDependency(deps, name) == {k \in 1..Len(deps) : deps[k].Name = name}

RECURSIVE scanOperator(_, _, _)
\* parseDependency: the loop over dep[i:] that is to collect the operator
scanOperator(runes, i, eq) ==
    IF runes = <<>> THEN [i |-> i, eq |-> eq]
    ELSE LET c == runes[1] IN
         IF c # Ord("<") \/ c # Ord(">") \/ c # Ord("=")
         THEN [i |-> i + 1, eq |-> eq]
         ELSE scanOperator(Tail(runes), i, Append(eq, c))

\* parseDependency: the switch on the operator collected
setBounds(d, eq, version) ==
    IF eq = Bytes("==") THEN [d EXCEPT !.MinVer = version, !.MaxVer = version]
    ELSE IF eq = Bytes("<=") THEN [d EXCEPT !.MaxVer = version]
    ELSE IF eq = Bytes(">=") THEN [d EXCEPT !.MinVer = version]
    ELSE IF eq = Bytes("<") THEN [d EXCEPT !.MaxVer = version, !.slt = TRUE]
    ELSE IF eq = Bytes(">") THEN [d EXCEPT !.MinVer = version, !.sgt = TRUE]
    ELSE d

\* parse dependency with possible version restriction
parseDependency(d, deps) ==
    IF d = <<>> THEN [status |-> "panic", deps |-> <<>>]
    ELSE IF d[1] = Ord("-") THEN [status |-> "error", deps |-> <<>>]
    ELSE
    LET i == nameLength(Runes(d))
        name == Slice(d, 0, i)
        found == findDependency(deps, name)
        at == IF found = {} THEN Len(deps) + 1
              ELSE CHOOSE k \in found : \A j \in found : j <= k
        deps1 == IF found = {} THEN Append(deps, NewDependency(name))
                 ELSE deps
        scan == scanOperator(Runes(Slice(d, i + 1, Len(d))), i + 1, <<>>)
        version == parseCompleteVersion(Slice(d, scan.i, Len(d)))
    IN
    IF Len(d) = Len(name) THEN [status |-> "ok", deps |-> deps1]
    ELSE IF ~version.ok THEN [status |-> "error", deps |-> <<>>]
    ELSE [status |-> "ok",
          deps |-> [deps1 EXCEPT ![at] = setBounds(@, scan.eq, version.val)]]

\* ----------------------------------------------- parse, the SRCINFO variant

ScalarFields ==
    {"itemPkgdir", "itemPkgdesc", "itemURL", "itemInstall", "itemChangelog"}

\* &PKGBUILD{Epoch: 0, Pkgbase: next.val} of the SRCINFO variant
NewSplitPKGBUILD(pkgbase) ==
    [Pkgnames |-> <<>>, Pkgver |-> <<>>, Pkgrel |-> 0, Pkgdir |-> <<>>,
     Epoch |-> 0, Pkgbase |-> pkgbase, Pkgdesc |-> <<>>, Arch |-> <<>>,
     URL |-> <<>>, License |-> <<>>, Groups |-> <<>>, Depends |-> <<>>,
     Optdepends |-> <<>>, Makedepends |-> <<>>, Checkdepends |-> <<>>,
     Provides |-> <<>>, Conflicts |-> <<>>, Replaces |-> <<>>,
     Backup |-> <<>>, Options |-> <<>>, Install |-> <<>>,
     Changelog |-> <<>>, Source |-> <<>>, Noextract |-> <<>>,
     Md5sums |-> <<>>, Sha1sums |-> <<>>, Sha224sums |-> <<>>,
     Sha256sums |-> <<>>, Sha384sums |-> <<>>, Sha512sums |-> <<>>,
     Validpgpkeys |-> <<>>]

\* The field of the SRCINFO variant a token of a name is stored in
splitFieldOf(key) == IF key = "itemPkgname" THEN "Pkgnames" ELSE fieldOf[key]

\* The case of the switch for the name key, given the item next that
\* follows it: the record pointer it leaves, an error or a panic. The
\* pointer pkgb is nil until a pkgbase has been read.
assign(pkgb, key, val) ==
    LET Ok(rec) == [status |-> "ok", pkgb |-> <<rec>>]
        Fail(status) == [status |-> status, pkgb |-> pkgb]
        Set(field, v) ==
            IF pkgb = <<>> THEN Fail("panic")
            ELSE Ok([pkgb[1] EXCEPT ![field] = v])
        Add(field, v) ==
            IF pkgb = <<>> THEN Fail("panic")
            ELSE Ok([pkgb[1] EXCEPT ![field] = Append(@, v)])
    IN
    IF key = "itemPkgbase" THEN Ok(NewSplitPKGBUILD(val))
    ELSE IF key \in NextFields
    THEN IF parseNext(key, val).ok
         THEN Set(fieldOf[key], parseNext(key, val).val)
         ELSE Fail("error")
    ELSE IF key = "itemArch"
    THEN IF val \in DOMAIN archs THEN Add("Arch", archs[val])
         ELSE Fail("error")
    ELSE IF key = "itemDepends"
    THEN IF pkgb = <<>> THEN Fail("panic")
         ELSE LET deps == parseDependency(val, pkgb[1].Depends) IN
              IF deps.status = "ok" THEN Set("Depends", deps.deps)
              ELSE Fail(deps.status)
    ELSE IF key \in ScalarFields THEN Set(fieldOf[key], val)
    ELSE Add(splitFieldOf(key), val)

\* parse of the SRCINFO variant: token := lexer.nextItem() and the switch
\* on its type, up to the next = lexer.nextItem() of the case
parseSplit ==
    /\ pc = "parse"
    /\ nextItem
    /\ LET token == items[1] IN
        IF token.typ \in DOMAIN fieldOf
        THEN /\ pc' = "next"
             /\ local' = [NoLocal EXCEPT !.key = token.typ]
             /\ UNCHANGED <<pkgbuild, ret>>
        ELSE IF token.typ = "itemEOF"
        THEN /\ pc' = "parsePKGBUILD"
             /\ ret' = [ret EXCEPT !.parse = "ok"]
             /\ UNCHANGED <<pkgbuild, local>>
        ELSE ReturnError
    /\ UNCHANGED <<cmp, dep>>

\* parse of the SRCINFO variant: next = lexer.nextItem() and the rest of
\* the case
nextSplit ==
    /\ pc = "next"
    /\ nextItem
    /\ LET got == assign(pkgbuild, local.key, items[1].val) IN
        IF got.status = "ok"
        THEN /\ pkgbuild' = got.pkgb
             /\ pc' = "parse"
             /\ local' = NoLocal
             /\ ret' = ret
        ELSE IF got.status = "error" THEN ReturnError
        ELSE Panic
    /\ UNCHANGED <<cmp, dep>>

\* The checks of parsePKGBUILD of the SRCINFO variant
validSplitRecord(pkgb) ==
    /\ validPkgver(pkgb.Pkgver)
    /\ Len(pkgb.Arch) # 0
    /\ Len(pkgb.Pkgnames) # 0
    /\ \A i \in 1..Len(pkgb.Pkgnames) : validPkgname(pkgb.Pkgnames[i])

\* parsePKGBUILD of the SRCINFO variant; pkgb.Pkgver panics on a nil pkgb
parsePKGBUILDSplit ==
    /\ pc = "parsePKGBUILD"
    /\ pc' = "done"
    /\ ret' = IF pkgbuild = <<>>
              THEN [parse |-> "ok", parsePKGBUILD |-> "panic", pkgb |-> <<>>]
              ELSE IF validSplitRecord(pkgbuild[1])
              THEN [ret EXCEPT !.parsePKGBUILD = "ok", !.pkgb = pkgbuild]
              ELSE [ret EXCEPT !.parsePKGBUILD = "error"]
    /\ UNCHANGED <<lexerVars, local, pkgbuild, cmp, dep>>

\* The lines of the SRCINFO inputs, in the order an input keeps
SplitLines ==
    <<Bytes("depends=c"), Bytes("pkgbase=base"), Bytes("epoch=1"),
      Bytes("pkgver=1.0"), Bytes("pkgrel=2"), Bytes("arch=any"),
      Bytes("pkgname=foo"), Bytes("depends=a>=1"), Bytes("pkgname=bar"),
      Bytes("depends=b"), Bytes("license=([0]=\"MIT\")")>>

RECURSIVE Pick(_, _)
\* The members of lines at the increasing offsets of the set at
Pick(lines, at) ==
    IF at = {} THEN <<>>
    ELSE LET k == CHOOSE x \in at : \A y \in at : x <= y IN
         <<lines[k]>> \o Pick(lines, at \ {k})

SplitInputs ==
    {JoinLines(Pick(SplitLines, at)) :
        at \in {a \in SUBSET (1..Len(SplitLines)) :
                    Cardinality(a) <= MaxSrcinfoLines}}

InitSrcinfo ==
    /\ \E input \in SplitInputs : l = lex(input)
    /\ items = <<>>
    /\ recvd = <<>>
    /\ eofInArray = FALSE
    /\ pc = "parse"
    /\ local = NoLocal
    /\ pkgbuild = <<>>
    /\ ret = NoReturn
    /\ cmp = NoCmp
    /\ dep = NoDep

NextSrcinfo ==
    \/ run
    \/ parseSplit
    \/ nextSplit
    \/ parsePKGBUILDSplit

SpecSrcinfo == InitSrcinfo /\ [][NextSrcinfo]_vars

\* ------------------------------------------------ Newer and Older, SpecCmp

NoLexer ==
    [input |-> <<>>, state |-> "nil", pos |-> 0, start |-> 0, width |-> 0,
     lastPos |-> 0]

CmpVersions == {Bytes("1.0"), Bytes("2.0"), Bytes("1.0a")}

\* The records compared: &PKGBUILD{Epoch: e, Pkgver: v, Pkgrel: r}
CmpRecords ==
    [Epoch : 0..MaxNum, Pkgver : CmpVersions, Pkgrel : 0..MaxNum]

BoolString(b) == IF b THEN "true" ELSE "false"

InitCmp ==
    /\ \E p \in CmpRecords, p2 \in CmpRecords :
          cmp = [op |-> "cmp", p |-> p, p2 |-> p2, newer |-> "none",
                 older |-> "none"]
    /\ l = NoLexer
    /\ items = <<>>
    /\ recvd = <<>>
    /\ eofInArray = FALSE
    /\ pc = "idle"
    /\ local = NoLocal
    /\ pkgbuild = <<>>
    /\ ret = NoReturn
    /\ dep = NoDep

\* p.Newer(p2)
callNewer ==
    /\ cmp.op = "cmp"
    /\ cmp.newer = "none"
    /\ cmp' = [cmp EXCEPT !.newer = BoolString(Newer(cmp.p, cmp.p2))]
    /\ UNCHANGED <<lexerVars, parserVars, dep>>

\* p.Older(p2)
callOlder ==
    /\ cmp.op = "cmp"
    /\ cmp.older = "none"
    /\ cmp' = [cmp EXCEPT !.older = BoolString(Older(cmp.p, cmp.p2))]
    /\ UNCHANGED <<lexerVars, parserVars, dep>>

NextCmp ==
    \/ callNewer
    \/ callOlder

SpecCmp == InitCmp /\ [][NextCmp]_vars

\* ---------------------------------------------- parseDependency, SpecDep

DepNames == {Bytes("a"), Bytes("b")}

DepOperators ==
    {Bytes("=="), Bytes("="), Bytes("<="), Bytes(">="), Bytes("<"),
     Bytes(">")}

DepVersions == {Bytes("1"), Bytes("1.0-2")}

\* The dependency strings passed: a name alone, or a name, an operator and
\* a version
DepArgs ==
    [name : DepNames, op : {<<>>}, version : {<<>>}]
        \cup [name : DepNames, op : DepOperators, version : DepVersions]

DepString(a) == a.name \o a.op \o a.version

InitDep ==
    /\ dep = [op |-> "deps", deps |-> <<>>, prev |-> <<>>, args |-> <<>>,
              status |-> "ok"]
    /\ l = NoLexer
    /\ items = <<>>
    /\ recvd = <<>>
    /\ eofInArray = FALSE
    /\ pc = "idle"
    /\ local = NoLocal
    /\ pkgbuild = <<>>
    /\ ret = NoReturn
    /\ cmp = NoCmp

\* deps, err = parseDependency(next.val, deps), each call given the list
\* the call before returned; an error ends the sequence
callParseDependency ==
    /\ dep.op = "deps"
    /\ dep.status = "ok"
    /\ Len(dep.args) < MaxCalls
    /\ \E a \in DepArgs :
        LET r == parseDependency(DepString(a), dep.deps) IN
        dep' = [op |-> "deps", deps |-> r.deps, prev |-> dep.deps,
                args |-> Append(dep.args, a), status |-> r.status]
    /\ UNCHANGED <<lexerVars, parserVars, cmp>>

NextDep == callParseDependency

SpecDep == InitDep /\ [][NextDep]_vars

\* ------------------------------------- lines of every kind, SpecLines

\* The kinds of line a sourced PKGBUILD holds: a list with an escaped
\* double quote in an element, the source list of one architecture, a
\* scalar in single quotes with a quote inside, an assignment of a
\* variable the table does not hold, two function definitions, an empty
\* line, a comment, and an arch list for every architecture literal and
\* for a literal that names no architecture.
listLine == Bytes("depends=([0]=\"c0\" [1]=\"c\\\"1\")")
archSourceLine == Bytes("source_x86_64=([0]=\"test-x86_64.tar.gz\")")
quotedLine == Bytes("pkgdesc=") \o Quote \o Bytes("a") \o Quote \o Bytes("b") \o Quote
unknownLine == Bytes("foo=1")
functionLine == Bytes("build () {")
functionParenLine == Bytes("check() {")
emptyLine == <<>>
commentLine == Bytes("# c")
archI686Line == Bytes("arch=([0]=\"i686\")")
archX8664Line == Bytes("arch=([0]=\"x86_64\")")
archARMv5Line == Bytes("arch=([0]=\"armv5\")")
archARMv6hLine == Bytes("arch=([0]=\"armv6h\")")
archARMv7hLine == Bytes("arch=([0]=\"armv7h\")")
archOtherLine == Bytes("arch=([0]=\"mips\")")

ArchLines ==
    {archLine, archI686Line, archX8664Line, archARMv5Line, archARMv6hLine,
     archARMv7hLine, archOtherLine}

KindLines ==
    {listLine, archSourceLine, quotedLine, unknownLine, functionLine,
     functionParenLine, emptyLine, commentLine, pkgnameLine, pkgverLine,
     arrayPkgdescLine} \cup ArchLines

KindInputs == {JoinLines(ls) : ls \in DistinctSeqsUpTo(KindLines, MaxKindLines)}

\* parse(input) has made the record and started the lexer
InitLines ==
    /\ \E input \in KindInputs : l = lex(input)
    /\ items = <<>>
    /\ recvd = <<>>
    /\ eofInArray = FALSE
    /\ pc = "parse"
    /\ local = NoLocal
    /\ pkgbuild = <<NewPKGBUILD>>
    /\ ret = NoReturn
    /\ cmp = NoCmp
    /\ dep = NoDep

SpecLines == InitLines /\ [][Next]_vars

\* ------------------------------- parseVersion, parseCompleteVersion, SpecVer

\* The version strings are made of at most MaxVerTokens of these: a digit,
\* two letters, the three other characters of a pkgver, the separators of a
\* complete version, a sign, a character of no version, and the rune
\* U+2031, whose low eight bits are those of the digit 1.
VerTokens ==
    {Bytes("1"), Bytes("a"), Bytes("A"), Bytes("."), Bytes("_"), Bytes("+"),
     Bytes("?"), Bytes("-"), Bytes(":"), <<226, 128, 177>>}

RECURSIVE Flatten(_)
\* The concatenation of a sequence of strings
Flatten(ss) == IF ss = <<>> THEN <<>> ELSE ss[1] \o Flatten(Tail(ss))

\* The strings of the tests of parseVersion and of parseCompleteVersion
VerExamples ==
    {Bytes("1.0beta"), Bytes("1.0.0.0.2"), Bytes("a.3_4"), Bytes("A.2"),
     Bytes("_1.2"), Bytes(".2"), Bytes("1.?"), Bytes("1.-"),
     Bytes("1:1.0beta"), Bytes("1.0"), Bytes("2.3-2"), Bytes("1::"),
     Bytes("4.3--1"), Bytes("4.1-a"), Bytes("f:2.3")}

\* A complete version whose epoch strconv.Atoi reads as a negative number
negativeEpochVersion == Bytes("-1:1.0")

VerStrings ==
    VerExamples \cup {negativeEpochVersion}
        \cup {Flatten(ts) : ts \in SeqsUpTo(VerTokens, MaxVerTokens)}

\* No call has been made on the string yet
InitVer ==
    /\ \E s \in VerStrings :
          cmp = [op |-> "ver", s |-> s, version |-> <<>>, complete |-> <<>>]
    /\ l = NoLexer
    /\ items = <<>>
    /\ recvd = <<>>
    /\ eofInArray = FALSE
    /\ pc = "idle"
    /\ local = NoLocal
    /\ pkgbuild = <<>>
    /\ ret = NoReturn
    /\ dep = NoDep

\* v, err := parseVersion(s)
callParseVersion ==
    /\ cmp.op = "ver"
    /\ cmp.version = <<>>
    /\ cmp' = [cmp EXCEPT !.version = <<parseVersion(cmp.s)>>]
    /\ UNCHANGED <<lexerVars, parserVars, dep>>

\* v, err := parseCompleteVersion(s)
callParseCompleteVersion ==
    /\ cmp.op = "ver"
    /\ cmp.complete = <<>>
    /\ cmp' = [cmp EXCEPT !.complete = <<parseCompleteVersion(cmp.s)>>]
    /\ UNCHANGED <<lexerVars, parserVars, dep>>

NextVer ==
    \/ callParseVersion
    \/ callParseCompleteVersion

SpecVer == InitVer /\ [][NextVer]_vars

\* --------------------------------------------- PKGBUILD.Version, SpecRender

RECURSIVE DecimalDigits(_)
\* The decimal digits of a natural number, most significant first
DecimalDigits(n) ==
    IF n < 10 THEN <<Ord("0") + n>>
    ELSE Append(DecimalDigits(n \div 10), Ord("0") + (n % 10))

\* The verb %d of fmt.Sprintf on an int
FormatInt(n) ==
    IF n < 0 THEN Bytes("-") \o DecimalDigits(0 - n) ELSE DecimalDigits(n)

\* The rendering that never omits the epoch
VersionWithEpoch(p) ==
    FormatInt(p.Epoch) \o Bytes(":") \o p.Pkgver \o Bytes("-")
        \o FormatInt(p.Pkgrel)

\* Version returns the full version of the PKGBUILD (including epoch and
\* rel), SRCINFO variant
Version(p) ==
    IF p.Epoch > 0
    THEN FormatInt(p.Epoch) \o Bytes(":") \o p.Pkgver \o Bytes("-")
             \o FormatInt(p.Pkgrel)
    ELSE p.Pkgver \o Bytes("-") \o FormatInt(p.Pkgrel)

\* The records Version is called on
RenderRecords ==
    [Pkgver : CmpVersions, Epoch : 0..MaxEpoch, Pkgrel : 0..MaxPkgrel]

InitRender ==
    /\ \E p \in RenderRecords : cmp = [op |-> "version", p |-> p, version |-> <<>>]
    /\ l = NoLexer
    /\ items = <<>>
    /\ recvd = <<>>
    /\ eofInArray = FALSE
    /\ pc = "idle"
    /\ local = NoLocal
    /\ pkgbuild = <<>>
    /\ ret = NoReturn
    /\ dep = NoDep

\* p.Version()
callVersion ==
    /\ cmp.op = "version"
    /\ cmp.version = <<>>
    /\ cmp' = [cmp EXCEPT !.version = <<Version(cmp.p)>>]
    /\ UNCHANGED <<lexerVars, parserVars, dep>>

NextRender == callVersion

SpecRender == InitRender /\ [][NextRender]_vars

\* -------------------------------------------- chains of Newer, SpecChain

\* The versions of the records of a chain
ChainVersions == {Bytes("1.0"), Bytes("1.0a"), Bytes("1.0.1"), Bytes("2.0")}

\* The records of a chain: &PKGBUILD{Epoch: e, Pkgver: v, Pkgrel: r}
ChainRecords ==
    [Epoch : 0..MaxChainNum, Pkgver : ChainVersions, Pkgrel : 0..MaxChainNum]

InitChain ==
    /\ \E a \in ChainRecords, b \in ChainRecords, c \in ChainRecords :
          cmp = [op |-> "chain", a |-> a, b |-> b, c |-> c, ab |-> "none",
                 bc |-> "none", ac |-> "none"]
    /\ l = NoLexer
    /\ items = <<>>
    /\ recvd = <<>>
    /\ eofInArray = FALSE
    /\ pc = "idle"
    /\ local = NoLocal
    /\ pkgbuild = <<>>
    /\ ret = NoReturn
    /\ dep = NoDep

\* a.Newer(b)
callNewerAB ==
    /\ cmp.op = "chain"
    /\ cmp.ab = "none"
    /\ cmp' = [cmp EXCEPT !.ab = BoolString(Newer(cmp.a, cmp.b))]
    /\ UNCHANGED <<lexerVars, parserVars, dep>>

\* b.Newer(c)
callNewerBC ==
    /\ cmp.op = "chain"
    /\ cmp.bc = "none"
    /\ cmp' = [cmp EXCEPT !.bc = BoolString(Newer(cmp.b, cmp.c))]
    /\ UNCHANGED <<lexerVars, parserVars, dep>>

\* a.Newer(c)
callNewerAC ==
    /\ cmp.op = "chain"
    /\ cmp.ac = "none"
    /\ cmp' = [cmp EXCEPT !.ac = BoolString(Newer(cmp.a, cmp.c))]
    /\ UNCHANGED <<lexerVars, parserVars, dep>>

NextChain ==
    \/ callNewerAB
    \/ callNewerBC
    \/ callNewerAC

SpecChain == InitChain /\ [][NextChain]_vars

\* ----------------------------------- complete versions with a release string

\* A complete version of the form [epoch:]version[-release], its release
\* a version string or empty when the suffix is absent
NewCompleteVersion(s) ==
    LET byEpoch == Split(s, Ord(":"))
        epoch == IF Len(byEpoch) > 1 THEN ParseInt(byEpoch[1])
                 ELSE [ok |-> TRUE, val |-> 0]
        versions == Split(byEpoch[Len(byEpoch)], Ord("-"))
    IN
    IF Len(byEpoch) > 2 \/ ~epoch.ok \/ Len(versions) > 2
    THEN [ok |-> FALSE, val |-> <<>>]
    ELSE IF Len(versions) > 1 /\ ~validPkgver(versions[2])
    THEN [ok |-> FALSE, val |-> <<>>]
    ELSE IF validPkgver(versions[1])
    THEN [ok |-> TRUE,
          val |-> <<[Version |-> versions[1], Epoch |-> epoch.val,
                     Pkgrel |-> IF Len(versions) > 1 THEN versions[2]
                                ELSE <<>>]>>]
    ELSE [ok |-> FALSE, val |-> <<>>]

\* The order of complete versions: the epoch, then the version, then the
\* release when both sides have one; 1 if a is the greater, -1 if b is
CompleteVersionCompare(a, b) ==
    IF a.Epoch > b.Epoch THEN 1
    ELSE IF a.Epoch < b.Epoch THEN -1
    ELSE IF rpmvercmp(a.Version, b.Version) # 0
    THEN rpmvercmp(a.Version, b.Version)
    ELSE IF a.Pkgrel = <<>> \/ b.Pkgrel = <<>> THEN 0
    ELSE rpmvercmp(a.Pkgrel, b.Pkgrel)

\* A test of the bounds that takes every bound for inclusive
SatisfiesInclusive(v, d) ==
    /\ d.MinVer # <<>> => CompleteVersionCompare(v, d.MinVer[1]) >= 0
    /\ d.MaxVer # <<>> => CompleteVersionCompare(v, d.MaxVer[1]) <= 0

\* Satisfies tests whether the version fits inside the bounds of the
\* dependency
Satisfies(v, d) ==
    LET cmpMin == IF d.MinVer = <<>> THEN 1
                  ELSE CompleteVersionCompare(v, d.MinVer[1])
        cmpMax == IF d.MaxVer = <<>> THEN -1
                  ELSE CompleteVersionCompare(v, d.MaxVer[1])
    IN
    IF cmpMax = 1 THEN FALSE
    ELSE IF cmpMax = 0 /\ d.slt THEN FALSE
    ELSE IF cmpMin = -1 THEN FALSE
    ELSE IF cmpMin = 0 /\ d.sgt THEN FALSE
    ELSE TRUE

\* ------------------------------------------------------ Satisfies, SpecSat

\* The version strings of TestSatisfies, and the 1.5 of the specification
SatStrings ==
    {Bytes("1.1"), Bytes("1.9"), Bytes("1.99"), Bytes("1.001"),
     Bytes("0:1.1"), Bytes("1"), Bytes("2"), Bytes("1.5"), Bytes("1:1.1"),
     Bytes("1:1.9"), Bytes("1:1"), Bytes("1:2"), Bytes("1.2.3"),
     Bytes("1.2.3-1"), Bytes("1.2.3-999"), Bytes("0:1.2.3"),
     Bytes("0:1.2.3-1"), Bytes("0"), Bytes("0.99"), Bytes("2.001"),
     Bytes("2:1.9"), Bytes("0:1"), Bytes("2:2"), Bytes("1:1.2.3"),
     Bytes("1.2.3.0"), Bytes("1.2.3.1"), Bytes("1:1.2.3-1"),
     Bytes("0:1.2.3-2"), Bytes("1.2.3-3")}

\* The versions the bounds of the dependencies of TestSatisfies hold
SatBounds ==
    {Bytes("1"), Bytes("2"), Bytes("1:1"), Bytes("1:2"), Bytes("1.2.3"),
     Bytes("1.2.3-1")}

\* A bound or none: a pointer to a complete version, nil when unset
SatPointers == {<<>>} \cup {NewCompleteVersion(b).val : b \in SatBounds}

\* The dependencies: every pair of bounds, each strict or inclusive, the
\* strict mark unset on an unset bound
SatDependencies ==
    {d \in [Name : {Bytes("a")}, MinVer : SatPointers, sgt : BOOLEAN,
            MaxVer : SatPointers, slt : BOOLEAN] :
        /\ d.MinVer = <<>> => ~d.sgt
        /\ d.MaxVer = <<>> => ~d.slt}

InitSat ==
    /\ \E s \in SatStrings, d \in SatDependencies :
          dep = [op |-> "sat", s |-> s, version |-> <<>>, d |-> d,
                 satisfies |-> "none"]
    /\ l = NoLexer
    /\ items = <<>>
    /\ recvd = <<>>
    /\ eofInArray = FALSE
    /\ pc = "idle"
    /\ local = NoLocal
    /\ pkgbuild = <<>>
    /\ ret = NoReturn
    /\ cmp = NoCmp

\* version, err := NewCompleteVersion(versionStr)
callNewCompleteVersion ==
    /\ dep.op = "sat"
    /\ dep.version = <<>>
    /\ NewCompleteVersion(dep.s).ok
    /\ dep' = [dep EXCEPT !.version = NewCompleteVersion(dep.s).val]
    /\ UNCHANGED <<lexerVars, parserVars, cmp>>

\* version.Satisfies(dep)
callSatisfies ==
    /\ dep.op = "sat"
    /\ dep.version # <<>>
    /\ dep.satisfies = "none"
    /\ dep' = [dep EXCEPT
                 !.satisfies = BoolString(Satisfies(dep.version[1], dep.d))]
    /\ UNCHANGED <<lexerVars, parserVars, cmp>>

NextSat ==
    \/ callNewCompleteVersion
    \/ callSatisfies

SpecSat == InitSat /\ [][NextSat]_vars

\* ------------------------------------------------- Restrict, SpecRestrict

\* The bound kept of two equal ones: the one with the longer release
LongerRelease(x, y) == IF Len(x[1].Pkgrel) > Len(y[1].Pkgrel) THEN x ELSE y

\* The minimum of the intersection: the larger bound, a set bound before
\* an unset one, and of two equal bounds the strict one
RestrictMin(a, b) ==
    IF a.MinVer = <<>> THEN [ver |-> b.MinVer, strict |-> b.sgt]
    ELSE IF b.MinVer = <<>> THEN [ver |-> a.MinVer, strict |-> a.sgt]
    ELSE LET c == CompleteVersionCompare(a.MinVer[1], b.MinVer[1]) IN
         IF c = 1 THEN [ver |-> a.MinVer, strict |-> a.sgt]
         ELSE IF c = -1 THEN [ver |-> b.MinVer, strict |-> b.sgt]
         ELSE [ver |-> LongerRelease(a.MinVer, b.MinVer),
               strict |-> a.sgt \/ b.sgt]

\* The maximum of the intersection: the smaller bound, a set bound before
\* an unset one, and of two equal bounds the strict one
RestrictMax(a, b) ==
    IF a.MaxVer = <<>> THEN [ver |-> b.MaxVer, strict |-> b.slt]
    ELSE IF b.MaxVer = <<>> THEN [ver |-> a.MaxVer, strict |-> a.slt]
    ELSE LET c == CompleteVersionCompare(a.MaxVer[1], b.MaxVer[1]) IN
         IF c = 1 THEN [ver |-> b.MaxVer, strict |-> b.slt]
         ELSE IF c = -1 THEN [ver |-> a.MaxVer, strict |-> a.slt]
         ELSE [ver |-> LongerRelease(a.MaxVer, b.MaxVer),
               strict |-> a.slt \/ b.slt]

\* A restriction that keeps the bounds of the receiver
RestrictToReceiver(a, b) == a

\* Restrict merges two dependencies of one name into their intersection
Restrict(a, b) ==
    [Name |-> a.Name,
     MinVer |-> RestrictMin(a, b).ver, sgt |-> RestrictMin(a, b).strict,
     MaxVer |-> RestrictMax(a, b).ver, slt |-> RestrictMax(a, b).strict]

InitRestrict ==
    /\ \E a \in SatDependencies, b \in SatDependencies :
          dep = [op |-> "restrict", a |-> a, b |-> b, ab |-> <<>>, ba |-> <<>>]
    /\ l = NoLexer
    /\ items = <<>>
    /\ recvd = <<>>
    /\ eofInArray = FALSE
    /\ pc = "idle"
    /\ local = NoLocal
    /\ pkgbuild = <<>>
    /\ ret = NoReturn
    /\ cmp = NoCmp

\* RestrictedDep1 := depsA[i].Restrict(depsB[i])
callRestrictAB ==
    /\ dep.op = "restrict"
    /\ dep.ab = <<>>
    /\ dep' = [dep EXCEPT !.ab = <<Restrict(dep.a, dep.b)>>]
    /\ UNCHANGED <<lexerVars, parserVars, cmp>>

\* RestrictedDep2 := depsB[i].Restrict(depsA[i])
callRestrictBA ==
    /\ dep.op = "restrict"
    /\ dep.ba = <<>>
    /\ dep' = [dep EXCEPT !.ba = <<Restrict(dep.b, dep.a)>>]
    /\ UNCHANGED <<lexerVars, parserVars, cmp>>

NextRestrict ==
    \/ callRestrictAB
    \/ callRestrictBA

SpecRestrict == InitRestrict /\ [][NextRestrict]_vars

\* ------------------------------------------------------------ properties

\* The lines of an input text
LinesOf(input) == Split(input, 10)

\* The input has a line that assigns the variable key
Assigns(input, key) ==
    \E i \in 1..Len(LinesOf(input)) :
        HasPrefixAt(LinesOf(input)[i], 0, Bytes(key) \o Bytes("="))

Returned == pc = "done"

\* C1: Newer and Older order records by epoch first, then pkgver, then
\* pkgrel. A greater epoch makes p newer and not older whatever the pkgver
\* and the pkgrel are; with equal epochs the pkgver decides; with equal
\* epochs and pkgver the pkgrel decides.
C1_EpochThenPkgverThenPkgrel ==
    (cmp.op = "cmp" /\ cmp.newer # "none" /\ cmp.older # "none") =>
        LET p == cmp.p
            q == cmp.p2
            Is(newer, older) ==
                cmp.newer = BoolString(newer) /\ cmp.older = BoolString(older)
        IN
        /\ p.Epoch > q.Epoch => Is(TRUE, FALSE)
        /\ p.Epoch < q.Epoch => Is(FALSE, TRUE)
        /\ (p.Epoch = q.Epoch /\ bigger(p.Pkgver, q.Pkgver)) => Is(TRUE, FALSE)
        /\ (p.Epoch = q.Epoch /\ bigger(q.Pkgver, p.Pkgver)) => Is(FALSE, TRUE)
        /\ (/\ p.Epoch = q.Epoch
            /\ ~bigger(p.Pkgver, q.Pkgver)
            /\ ~bigger(q.Pkgver, p.Pkgver))
           => Is(p.Pkgrel > q.Pkgrel, p.Pkgrel < q.Pkgrel)

\* C2: for all records a and b exactly one of a.Newer(b), a.Older(b) and
\* a equal to b (same epoch, neither pkgver bigger, same pkgrel) holds.
C2_Trichotomy ==
    (cmp.op = "cmp" /\ cmp.newer # "none" /\ cmp.older # "none") =>
        LET a == cmp.p
            b == cmp.p2
            equal == /\ a.Epoch = b.Epoch
                     /\ ~bigger(a.Pkgver, b.Pkgver)
                     /\ ~bigger(b.Pkgver, a.Pkgver)
                     /\ a.Pkgrel = b.Pkgrel
        IN
        Cardinality({k \in 1..3 :
                        \/ k = 1 /\ cmp.newer = "true"
                        \/ k = 2 /\ cmp.older = "true"
                        \/ k = 3 /\ equal}) = 1

\* C3: parsePKGBUILD returns an error and no record for every input that
\* never assigns pkgname, or pkgver, or pkgrel, or arch.
C3_RequiredFields ==
    \A key \in {"pkgname", "pkgver", "pkgrel", "arch"} :
        (Returned /\ ~Assigns(l.input, key)) =>
            (ret.parsePKGBUILD = "error" /\ ret.pkgb = <<>>)

\* The tokenizer has stopped short of a further token: it has halted, or
\* it reads the end of the input over and over inside an array.
TokenizerSilent == items = <<>> /\ (l.state = "nil" \/ eofInArray)

\* C4: parse returns for every finite input: the tokenizer reaches the end
\* of the input or an error token, and the record builder never waits for
\* a token the tokenizer will not send.
C4_ParseReturns ==
    /\ ~eofInArray
    /\ (pc \in {"parse", "next", "parseValue", "parseValueDiscard",
                "parseArrayValues", "parseArchs"})
        => ~TokenizerSilent

\* C5: an invalid identifier makes the tokenizer emit one error token and
\* nothing after it, and parse returns an error and no record.
C5_ErrorTokenEndsParse ==
    \A i \in 1..Len(recvd) :
        recvd[i].typ = "itemError" =>
            /\ i = Len(recvd)
            /\ items = <<>>
            /\ l.state = "nil"
            /\ Returned
            /\ ret.parse = "error"
            /\ ret.pkgb = <<>>

\* C6: when the input ends inside an array element or inside an array, the
\* tokenizer emits an error token and halts.
C6_OpenArrayIsError ==
    eofInArray =>
        /\ l.state = "nil"
        /\ \/ items # <<>> /\ items[1].typ = "itemError"
           \/ \E i \in 1..Len(recvd) : recvd[i].typ = "itemError"

\* The names the pkgname lines of an input assign, in order
RECURSIVE PkgnamesOf(_)
PkgnamesOf(lines) ==
    IF lines = <<>> THEN <<>>
    ELSE IF HasPrefixAt(lines[1], 0, Bytes("pkgname="))
    THEN <<Slice(lines[1], 8, Len(lines[1]))>> \o PkgnamesOf(Tail(lines))
    ELSE PkgnamesOf(Tail(lines))

\* C7: an input with one pkgbase section and two pkgname sections yields
\* two records, one per pkgname, that share the epoch, the pkgver and the
\* pkgrel of the base, and a depends of one section is in the record of
\* that package only.
C7_SplitRecords ==
    LET names == PkgnamesOf(LinesOf(l.input)) IN
    (/\ Returned
     /\ ret.parsePKGBUILD = "ok"
     /\ Assigns(l.input, "pkgbase")
     /\ Len(names) = 2)
    => /\ Len(ret.pkgb) = 2
       /\ \A i \in 1..2 :
            /\ ret.pkgb[i].Pkgnames = <<names[i]>>
            /\ ret.pkgb[i].Epoch = ret.pkgb[1].Epoch
            /\ ret.pkgb[i].Pkgver = ret.pkgb[1].Pkgver
            /\ ret.pkgb[i].Pkgrel = ret.pkgb[1].Pkgrel
       /\ \A k \in 1..Len(ret.pkgb[1].Depends) :
            \A j \in 1..Len(ret.pkgb[2].Depends) :
                ret.pkgb[1].Depends[k].Name # ret.pkgb[2].Depends[j].Name

\* The names of a list of dependencies, in order
NamesOf(deps) == [k \in 1..Len(deps) |-> deps[k].Name]

\* The entry the operator and the version of a dependency string ask for
ExpectedEntry(a) ==
    LET v == parseCompleteVersion(a.version).val
        min == a.op \in {Bytes("=="), Bytes("="), Bytes(">="), Bytes(">")}
        max == a.op \in {Bytes("=="), Bytes("="), Bytes("<="), Bytes("<")}
    IN
    [Name |-> a.name,
     MinVer |-> IF min THEN v ELSE <<>>,
     sgt |-> a.op = Bytes(">"),
     MaxVer |-> IF max THEN v ELSE <<>>,
     slt |-> a.op = Bytes("<")]

\* C8: for a name not yet in the list, an operator and a valid version,
\* parseDependency succeeds and the entry of the name has the bounds and
\* the strict flags of the operator.
C8_OperatorBounds ==
    (/\ dep.op = "deps"
     /\ dep.args # <<>>
     /\ dep.args[Len(dep.args)].op # <<>>
     /\ \A k \in 1..Len(dep.prev) :
            dep.prev[k].Name # dep.args[Len(dep.args)].name)
    => /\ dep.status = "ok"
       /\ dep.deps = Append(dep.prev, ExpectedEntry(dep.args[Len(dep.args)]))

RECURSIVE FirstAppearance(_, _)
\* The members of names in order, each at its first place only
FirstAppearance(names, seen) ==
    IF names = <<>> THEN <<>>
    ELSE IF names[1] \in seen THEN FirstAppearance(Tail(names), seen)
    ELSE <<names[1]>> \o FirstAppearance(Tail(names), seen \cup {names[1]})

\* C9: after successful calls of parseDependency, each given the list of
\* the call before, the list has one entry for each name, in the order of
\* the first appearance of the names; a string whose name is in the list
\* appends no entry and leaves the entries of the other names as they were.
C9_OneEntryPerName ==
    (dep.op = "deps" /\ dep.status = "ok") =>
        /\ NamesOf(dep.deps) =
              FirstAppearance([k \in 1..Len(dep.args) |-> dep.args[k].name], {})
        /\ dep.args # <<>> =>
              LET name == dep.args[Len(dep.args)].name IN
              \A k \in 1..Len(dep.prev) :
                  /\ k <= Len(dep.deps)
                  /\ dep.prev[k].Name # name => dep.deps[k] = dep.prev[k]

\* Three calls have succeeded and the third names the dependency of the
\* first again, after another name
C9_Witness ==
    /\ dep.op = "deps"
    /\ dep.status = "ok"
    /\ Len(dep.args) = 3
    /\ dep.args[1].name = dep.args[3].name
    /\ dep.args[2].name # dep.args[1].name
    /\ dep.args[3].op # <<>>
    /\ Len(dep.deps) = 2

\* The field and the value each well formed line assigns
LineField(line) ==
    IF line = pkgnameLine THEN <<"Pkgname", Bytes("foo")>>
    ELSE IF line = pkgverLine THEN <<"Pkgver", Bytes("1.0")>>
    ELSE IF line = pkgrelLine THEN <<"Pkgrel", 1>>
    ELSE IF line = archLine THEN <<"Arch", <<"Any">>>>
    ELSE <<"Pkgdesc", Bytes("v1")>>

WellFormedLines ==
    {pkgnameLine, pkgverLine, pkgrelLine, archLine, arrayPkgdescLine}

RECURSIVE RecordOf(_, _)
\* The record the assignments of well formed lines make, line by line
RecordOf(lines, rec) ==
    IF lines = <<>> THEN rec
    ELSE RecordOf(Tail(lines),
                  [rec EXCEPT ![LineField(lines[1])[1]] = LineField(lines[1])[2]])

\* The input has the scalar pkgdesc in array syntax among well formed
\* lines only
ArrayForScalar ==
    LET lines == LinesOf(l.input) IN
    /\ \E i \in 1..Len(lines) : lines[i] = arrayPkgdescLine
    /\ \A i \in 1..Len(lines) : lines[i] \in WellFormedLines

\* C10: a scalar field assigned with array syntax receives the first
\* element only, the other elements of the array are consumed and
\* discarded, and the lines that follow are parsed as usual.
C10_FirstElementOnly ==
    (pc \in {"parsePKGBUILD", "done"} /\ ArrayForScalar) =>
        /\ ret.parse = "ok"
        /\ pkgbuild[1].Pkgdesc = Bytes("v1")
        /\ pkgbuild[1] = RecordOf(LinesOf(l.input), NewPKGBUILD)
        /\ \A i \in 1..Len(recvd) :
              recvd[i].typ = "itemPkgdesc" =>
                  /\ i + 4 <= Len(recvd)
                  /\ recvd[i + 1].typ = "itemArrayValue"
                  /\ recvd[i + 1].val = Bytes("v1")
                  /\ recvd[i + 2].typ = "itemArrayValue"
                  /\ recvd[i + 2].val = Bytes("v2")
                  /\ recvd[i + 3].typ = "itemArrayEnd"
                  /\ recvd[i + 4].typ \notin {"itemArrayValue", "itemArrayEnd"}

\* parsePKGBUILD has returned the record of an input whose first line
\* assigns pkgdesc with array syntax and whose later lines assign pkgname,
\* pkgver and arch
C10_Witness ==
    /\ Returned
    /\ ret.parsePKGBUILD = "ok"
    /\ LinesOf(l.input)[1] = arrayPkgdescLine
    /\ Len(LinesOf(l.input)) = 4
    /\ ret.pkgb[1].Pkgdesc = Bytes("v1")
    /\ ret.pkgb[1].Pkgname = Bytes("foo")
    /\ ret.pkgb[1].Arch = <<"Any">>

\* The offset at which line i of the lines starts
LineStart(lines, i) == Len(JoinLines(SubSeq(lines, 1, i - 1))) + (IF i > 1 THEN 1 ELSE 0)

\* The elements of listLine, the second with its quote unescaped
listElements == <<Bytes("c0"), Bytes("c\"1")>>

\* C11: for a list field assigned as key=([0]="c0" [1]="c1" ...) the parsed
\* field is exactly the list of the element contents in input order, one
\* entry per element; an escaped quote inside an element does not end the
\* element and is stored as a plain double quote. Stated of every
\* assignment of listLine the tokenizer reaches: the elements arrive as
\* two tokens, the second still escaped, and once the end of the array is
\* consumed the field is the list.
C11_ListInOrder ==
    \A i \in 1..Len(recvd) :
        recvd[i].typ = "itemDepends" =>
            /\ Len(recvd) >= i + 1 =>
                  /\ recvd[i + 1].typ = "itemArrayValue"
                  /\ recvd[i + 1].val = Bytes("c0")
            /\ Len(recvd) >= i + 2 =>
                  /\ recvd[i + 2].typ = "itemArrayValue"
                  /\ recvd[i + 2].val = Bytes("c\\\"1")
            /\ Len(recvd) >= i + 3 =>
                  /\ recvd[i + 3].typ = "itemArrayEnd"
                  /\ pkgbuild[1].Depends = listElements

\* parse has returned the record of an input that assigns the list after
\* another line
C11_Witness ==
    /\ Returned
    /\ ret.parse = "ok"
    /\ Len(LinesOf(l.input)) = 2
    /\ LinesOf(l.input)[2] = listLine
    /\ pkgbuild[1].Depends = listElements
    /\ Len(pkgbuild[1].Depends[2]) = 3


\* C12: a source key with an architecture suffix is recognised and its
\* elements are appended to Source: parsing archSourceLine succeeds and
\* gives Source[0] = "test-x86_64.tar.gz".
C12_ArchSource ==
    (pc \in {"parsePKGBUILD", "done"} /\ l.input = archSourceLine) =>
        /\ ret.parse = "ok"
        /\ Len(pkgbuild[1].Source) >= 1
        /\ pkgbuild[1].Source[1] = Bytes("test-x86_64.tar.gz")

\* The value between the outer quotes of quotedLine
quotedValue == Bytes("a") \o Quote \o Bytes("b")

\* C13: for a scalar in single quotes the emitted value is the text
\* without the opening and without the closing quote, both when the
\* closing quote is followed by a newline and when it is the last
\* character of the input; a quote followed by any other character stays
\* in the value; an unquoted scalar is the text up to the end of the line.
C13_QuotedScalar ==
    \A i \in 1..(Len(recvd) - 1) :
        /\ HasPrefixAt(l.input, recvd[i].pos, quotedLine) =>
              /\ recvd[i].typ = "itemPkgdesc"
              /\ recvd[i + 1].typ = "itemValue"
              /\ recvd[i + 1].val = quotedValue
        /\ HasPrefixAt(l.input, recvd[i].pos, pkgnameLine) =>
              /\ recvd[i].typ = "itemPkgname"
              /\ recvd[i + 1].typ = "itemValue"
              /\ recvd[i + 1].val = Bytes("foo")

\* The lines lexVariable skips: the variable is not in the table, or the
\* identifier is followed by a space or a parenthesis
SkippedLines == {unknownLine, archSourceLine, functionLine, functionParenLine}

\* The name token of each line that assigns a variable of the table
NameTokenOf(line) ==
    IF line = listLine THEN "itemDepends"
    ELSE IF line \in {quotedLine, arrayPkgdescLine} THEN "itemPkgdesc"
    ELSE IF line = pkgnameLine THEN "itemPkgname"
    ELSE IF line = pkgverLine THEN "itemPkgver"
    ELSE IF line \in ArchLines THEN "itemArch"
    ELSE "none"

\* The items the lexer has sent, received or not
Sent == recvd \o items

\* The lexer has sent the item that ends the token stream
SentEOF == \E k \in 1..Len(Sent) : Sent[k].typ = "itemEOF"

\* C14: a line whose name before the equals sign is no recognised key, or
\* whose identifier is followed by a space or a parenthesis, produces no
\* token and no error token, and tokenization resumes at the start of the
\* next line: no item starts inside the line, lexEnv is never entered
\* inside it, and a following line that assigns a recognised key has its
\* name token once the scan reaches it.
C14_SkippedLine ==
    LET lines == LinesOf(l.input) IN
    \A i \in 1..Len(lines) :
        lines[i] \in SkippedLines =>
            LET from == LineStart(lines, i)
                to == from + Len(lines[i])
            IN
            /\ \A k \in 1..Len(Sent) :
                  ~(from <= Sent[k].pos /\ Sent[k].pos < to)
            /\ l.state = "lexEnv" => ~(from < l.pos /\ l.pos < to)
            /\ (/\ i < Len(lines)
                /\ NameTokenOf(lines[i + 1]) # "none"
                /\ \/ SentEOF
                   \/ l.pos > to + 1) =>
                  /\ Sent # <<>>
                  /\ \E k \in 1..Len(Sent) :
                        /\ Sent[k].typ = NameTokenOf(lines[i + 1])
                        /\ Sent[k].pos = to + 1

\* The scan of a function definition followed by an assignment of pkgver
\* is over, and the only items are those of the assignment
C14_Witness ==
    /\ LinesOf(l.input) = <<functionLine, pkgverLine>>
    /\ Returned
    /\ Len(recvd) = 3
    /\ recvd[1].typ = "itemPkgver"
    /\ recvd[1].pos = Len(functionLine) + 1
    /\ recvd[3].typ = "itemEOF"
    /\ pkgbuild[1].Pkgver = Bytes("1.0")

\* C15: tokenization is line-local: every line that begins with a
\* recognised key immediately followed by the equals sign yields the name
\* token of the key followed by its value token or tokens, whatever the
\* lines before it hold, as long as no error token was sent earlier.
\* Stated of the scans that have reached the end of the input.
C15_LineLocal ==
    LET lines == LinesOf(l.input) IN
    (SentEOF /\ \A k \in 1..Len(Sent) : Sent[k].typ # "itemError") =>
        \A i \in 1..Len(lines) :
            NameTokenOf(lines[i]) # "none" =>
                \E k \in 1..(Len(Sent) - 1) :
                    /\ Sent[k].typ = NameTokenOf(lines[i])
                    /\ Sent[k].pos = LineStart(lines, i)
                    /\ Sent[k + 1].typ \in {"itemValue", "itemArrayValue"}

\* The Arch constant each of the six architecture literals names
ArchConstantOf(v) ==
    IF v = Bytes("any") THEN "Any"
    ELSE IF v = Bytes("i686") THEN "I686"
    ELSE IF v = Bytes("x86_64") THEN "X8664"
    ELSE IF v = Bytes("armv5") THEN "ARMv5"
    ELSE IF v = Bytes("armv6h") THEN "ARMv6h"
    ELSE IF v = Bytes("armv7h") THEN "ARMv7h"
    ELSE "none"

\* C16: parse accepts each of the six architecture literals any, i686,
\* x86_64, armv5, armv6h and armv7h, recording the matching Arch constant,
\* and returns an error for every other arch literal. Stated at the
\* receipt of the literal, which is an error exactly when it is none of the
\* six, and at the receipt of the end of the array, which stores the
\* constant.
C16_ArchLiterals ==
    \A i \in 1..(Len(recvd) - 1) :
        recvd[i].typ = "itemArch" =>
            LET v == recvd[i + 1].val IN
            /\ Len(recvd) = i + 1 =>
                  (ret.parse = "error" <=> ArchConstantOf(v) = "none")
            /\ (Len(recvd) = i + 2 /\ ArchConstantOf(v) # "none") =>
                  /\ ret.parse # "error"
                  /\ pkgbuild[1].Arch = <<ArchConstantOf(v)>>

\* The characters of the version charset rule, as code points
IsLetterOrDigit(r) ==
    \/ r >= 48 /\ r <= 57
    \/ r >= 65 /\ r <= 90
    \/ r >= 97 /\ r <= 122

\* The version charset rule on the characters of a string: not empty, a
\* letter or digit first, then letters, digits, underscores, plus signs
\* and dots only
VersionRule(s) ==
    LET rs == Runes(s) IN
    /\ Len(rs) >= 1
    /\ IsLetterOrDigit(rs[1])
    /\ \A i \in 2..Len(rs) : IsLetterOrDigit(rs[i]) \/ rs[i] \in {95, 43, 46}

\* C17: parseVersion(s) succeeds and returns s unchanged exactly when s is
\* not empty, its first character is a letter or digit, and every further
\* character is a letter, a digit, an underscore, a plus sign or a dot;
\* for every other string it returns an error.
C17_VersionCharset ==
    (cmp.op = "ver" /\ cmp.version # <<>>) =>
        /\ cmp.version[1].ok <=> VersionRule(cmp.s)
        /\ cmp.version[1].ok => cmp.version[1].val = cmp.s

\* The text before the colon of a string with one colon starts with a
\* minus sign: the epoch of the input is negative
NegativeEpochIn(s) ==
    /\ Len(Split(s, Ord(":"))) = 2
    /\ Split(s, Ord(":"))[1] # <<>>
    /\ Split(s, Ord(":"))[1][1] = Ord("-")

\* C18: every epoch the code accepts is non-negative: each CompleteVersion
\* parseCompleteVersion returns has Epoch >= 0, and a negative epoch in
\* the input is an error.
C18_EpochNonNegative ==
    (cmp.op = "ver" /\ cmp.complete # <<>>) =>
        /\ cmp.complete[1].ok => cmp.complete[1].val[1].Epoch >= 0
        /\ NegativeEpochIn(cmp.s) => ~cmp.complete[1].ok

\* A decimal integer: an optional sign, then digits
IsInteger(t) ==
    LET digits == IF t # <<>> /\ t[1] \in {43, 45} THEN Tail(t) ELSE t IN
    /\ digits # <<>>
    /\ \A i \in 1..Len(digits) : digits[i] >= 48 /\ digits[i] <= 57

\* The string is no complete version: more than one colon, more than one
\* hyphen after the epoch part, an epoch or a release that is no integer,
\* or a version part against the version charset rule
Malformed(s) ==
    LET parts == Split(s, 58)
        rest == Split(parts[Len(parts)], 45)
    IN
    \/ Len(parts) > 2
    \/ Len(rest) > 2
    \/ Len(parts) = 2 /\ ~IsInteger(parts[1])
    \/ Len(rest) = 2 /\ ~IsInteger(rest[2])
    \/ ~VersionRule(rest[1])

\* C19: parseCompleteVersion returns an error and no version for every
\* string that has more than one colon, or more than one hyphen after
\* the epoch part, or an epoch or release that is no integer, or whose
\* version part violates the version charset rule.
C19_MalformedIsError ==
    (cmp.op = "ver" /\ cmp.complete # <<>> /\ Malformed(cmp.s)) =>
        /\ ~cmp.complete[1].ok
        /\ cmp.complete[1].val = <<>>

\* The string is the decimal numeral of n, with no sign and no leading zero
IsNumeralOf(t, n) ==
    /\ t # <<>>
    /\ \A i \in 1..Len(t) : t[i] >= 48 /\ t[i] <= 57
    /\ Len(t) > 1 => t[1] # 48
    /\ DigitsValue(t, 0) = n

C21_NoPartialRecord ==
    (ret.parse = "error" \/ ret.parsePKGBUILD = "error") => ret.pkgb = <<>>

\* parse has filled pkgname and returned, a validation step of
\* parsePKGBUILD has failed, and no record is returned
C21_Witness ==
    /\ Returned
    /\ ret.parse = "ok"
    /\ ret.parsePKGBUILD = "error"
    /\ pkgbuild[1].Pkgname = Bytes("foo")
    /\ ret.pkgb = <<>>

\* parse has filled pkgname, met an error token on a later line and
\* returned the error and no record
C21_WitnessParse ==
    /\ Returned
    /\ ret.parse = "error"
    /\ pkgbuild[1].Pkgname = Bytes("foo")
    /\ ret.pkgb = <<>>

\* C22: Newer is transitive: for all records a, b, c, if a.Newer(b) and
\* b.Newer(c) then a.Newer(c).
C22_NewerTransitive ==
    (cmp.op = "chain" /\ cmp.ab = "true" /\ cmp.bc = "true" /\ cmp.ac # "none") =>
        cmp.ac = "true"

\* The three calls were made on three records of different epoch, pkgver
\* and pkgrel, and the first two returned true
C22_Witness ==
    /\ cmp.op = "chain"
    /\ cmp.ab = "true"
    /\ cmp.bc = "true"
    /\ cmp.ac = "true"
    /\ cmp.a.Epoch > cmp.c.Epoch
    /\ cmp.a.Pkgver # cmp.b.Pkgver
    /\ cmp.b.Pkgver = cmp.c.Pkgver
    /\ cmp.b.Pkgrel > cmp.c.Pkgrel

\* The dependency with the given bounds, as strings, "" for an unset bound
DependencyOf(min, sgt, max, slt) ==
    [Name |-> Bytes("a"),
     MinVer |-> IF min = "" THEN <<>> ELSE NewCompleteVersion(Bytes(min)).val,
     sgt |-> sgt,
     MaxVer |-> IF max = "" THEN <<>> ELSE NewCompleteVersion(Bytes(max)).val,
     slt |-> slt]

SameBound(x, sx, y, sy) ==
    /\ (x = <<>>) <=> (y = <<>>)
    /\ x # <<>> => CompleteVersionCompare(x[1], y[1]) = 0
    /\ sx = sy

\* The bound r with strictness sr is the tighter of the bounds x and y,
\* where dir is 1 for minimums and -1 for maximums: a set bound wins over
\* an unset one, then the larger (smaller) one, and of equal ones the
\* strict one
TighterOf(r, sr, x, sx, y, sy, dir) ==
    /\ (r = <<>>) <=> (x = <<>> /\ y = <<>>)
    /\ (x # <<>> /\ y = <<>>) => (r = x /\ sr = sx)
    /\ (x = <<>> /\ y # <<>>) => (r = y /\ sr = sy)
    /\ (x # <<>> /\ y # <<>>) =>
          LET c == CompleteVersionCompare(x[1], y[1]) IN
          /\ c = dir => (r = x /\ sr = sx)
          /\ c = 0 - dir => (r = y /\ sr = sy)
          /\ c = 0 => (r \in {x, y} /\ sr = (sx \/ sy))

alphaNumeric ==
    <<Bytes("1.0.1"), Bytes("1.0.a"), Bytes("1.0"), Bytes("1.0rc"),
      Bytes("1.0pre"), Bytes("1.0p"), Bytes("1.0beta"), Bytes("1.0b"),
      Bytes("1.0a")>>

numeric ==
    <<Bytes("20141130"), Bytes("012"), Bytes("11"), Bytes("3.0.0"),
      Bytes("2.011"), Bytes("2.03"), Bytes("2.0"), Bytes("1.2"),
      Bytes("1.1.1"), Bytes("1.1"), Bytes("1.0.1"), Bytes("1.0.0.0.0.0"),
      Bytes("1.0"), Bytes("1")>>

git ==
    <<Bytes("r1000.b481c3c"), Bytes("r37.e481c3c"), Bytes("r36.f481c3c")>>

VersionTables == <<alphaNumeric, numeric, git>>

Range(f) == {f[i] : i \in DOMAIN f}

TableVersions == Range(alphaNumeric) \cup Range(numeric) \cup Range(git)

\* Three versions of the tables; none of them has been compared yet
InitBigger ==
    /\ \E a \in TableVersions, b \in TableVersions, c \in TableVersions :
          cmp = [op |-> "bigger", a |-> a, b |-> b, c |-> c, ab |-> "none",
                 ba |-> "none", bc |-> "none", ac |-> "none"]
    /\ l = NoLexer
    /\ items = <<>>
    /\ recvd = <<>>
    /\ eofInArray = FALSE
    /\ pc = "idle"
    /\ local = NoLocal
    /\ pkgbuild = <<>>
    /\ ret = NoReturn
    /\ dep = NoDep

\* v.bigger(v2) of the closure bigger
callBiggerAB ==
    /\ cmp.op = "bigger"
    /\ cmp.ab = "none"
    /\ cmp' = [cmp EXCEPT !.ab = BoolString(bigger(cmp.a, cmp.b))]
    /\ UNCHANGED <<lexerVars, parserVars, dep>>

\* v.bigger(v2) of the closure smaller, the later version being v
callBiggerBA ==
    /\ cmp.op = "bigger"
    /\ cmp.ba = "none"
    /\ cmp' = [cmp EXCEPT !.ba = BoolString(bigger(cmp.b, cmp.a))]
    /\ UNCHANGED <<lexerVars, parserVars, dep>>

callBiggerBC ==
    /\ cmp.op = "bigger"
    /\ cmp.bc = "none"
    /\ cmp' = [cmp EXCEPT !.bc = BoolString(bigger(cmp.b, cmp.c))]
    /\ UNCHANGED <<lexerVars, parserVars, dep>>

callBiggerAC ==
    /\ cmp.op = "bigger"
    /\ cmp.ac = "none"
    /\ cmp' = [cmp EXCEPT !.ac = BoolString(bigger(cmp.a, cmp.c))]
    /\ UNCHANGED <<lexerVars, parserVars, dep>>

NextBigger ==
    \/ callBiggerAB
    \/ callBiggerBA
    \/ callBiggerBC
    \/ callBiggerAC

SpecBigger == InitBigger /\ [][NextBigger]_vars

\* The two versions compared are v and w, and both calls have returned
Compared(v, w) ==
    /\ cmp.op = "bigger"
    /\ cmp.a = Bytes(v)
    /\ cmp.b = Bytes(w)
    /\ cmp.ab # "none"
    /\ cmp.ba # "none"

\* v.bigger(w) returned true and w.bigger(v) returned false
Greater(v, w) == Compared(v, w) => (cmp.ab = "true" /\ cmp.ba = "false")

ListedBefore(v, w) ==
    \E t \in DOMAIN VersionTables :
       \E i \in DOMAIN VersionTables[t], j \in DOMAIN VersionTables[t] :
          /\ i < j
          /\ VersionTables[t][i] = v
          /\ VersionTables[t][j] = w

CompleteVersionStringWithEpoch(c) ==
    FormatInt(c.Epoch) \o Bytes(":") \o c.Version
        \o (IF c.Pkgrel # <<>> THEN Bytes("-") \o c.Pkgrel ELSE <<>>)

\* String of a complete version: epoch:version-release, the epoch left out
\* when it is zero and the release when it is empty
CompleteVersionString(c) ==
    (IF c.Epoch > 0 THEN FormatInt(c.Epoch) \o Bytes(":") ELSE <<>>)
        \o c.Version
        \o (IF c.Pkgrel # <<>> THEN Bytes("-") \o c.Pkgrel ELSE <<>>)

\* The string of TestCompleteVersionString
completeVersionStr == Bytes("42:3.14-1")

RoundTripStrings ==
    VerStrings \cup SatStrings
        \cup {completeVersionStr, Bytes("3.14-1"), Bytes("0:3.14-1"),
              Bytes("042:3.14-1"), Bytes("+42:3.14-1")}

\* No call has been made on the string yet
InitRoundTrip ==
    /\ \E s \in RoundTripStrings :
          dep = [op |-> "round", s |-> s, err |-> "none", version |-> <<>>,
                 str |-> <<>>]
    /\ l = NoLexer
    /\ items = <<>>
    /\ recvd = <<>>
    /\ eofInArray = FALSE
    /\ pc = "idle"
    /\ local = NoLocal
    /\ pkgbuild = <<>>
    /\ ret = NoReturn
    /\ cmp = NoCmp

\* version, _ := NewCompleteVersion(str)
callNewCompleteVersionOfStr ==
    /\ dep.op = "round"
    /\ dep.err = "none"
    /\ LET r == NewCompleteVersion(dep.s) IN
       dep' = [dep EXCEPT !.err = IF r.ok THEN "nil" ELSE "error",
                          !.version = r.val]
    /\ UNCHANGED <<lexerVars, parserVars, cmp>>

\* version.String()
callString ==
    /\ dep.op = "round"
    /\ dep.version # <<>>
    /\ dep.str = <<>>
    /\ dep' = [dep EXCEPT !.str = <<CompleteVersionString(dep.version[1])>>]
    /\ UNCHANGED <<lexerVars, parserVars, cmp>>

NextRoundTrip ==
    \/ callNewCompleteVersionOfStr
    \/ callString

SpecRoundTrip == InitRoundTrip /\ [][NextRoundTrip]_vars

\* The numeral of a positive integer: digits only, no leading zero
IsPositiveNumeral(t) ==
    /\ t # <<>>
    /\ \A i \in 1..Len(t) : t[i] >= 48 /\ t[i] <= 57
    /\ t[1] # 48

\* The canonical form [epoch:]version[-release]: an epoch only when it is
\* not zero, a version under the version charset rule and, after a hyphen,
\* a release under the same rule
CanonicalForm(s) ==
    LET parts == Split(s, 58)
        rest == Split(parts[Len(parts)], 45)
    IN
    /\ Len(parts) <= 2
    /\ Len(parts) = 2 => IsPositiveNumeral(parts[1])
    /\ Len(rest) <= 2
    /\ VersionRule(rest[1])
    /\ Len(rest) = 2 => VersionRule(rest[2])

ScalarKeys ==
    {"pkgname", "pkgdir", "pkgbase", "pkgdesc", "url", "install", "changelog"}

NumberKeys == {"pkgrel", "epoch"}

ArrayKeys ==
    {"license", "groups", "depends", "optdepends", "makedepends",
     "checkdepends", "provides", "conflicts", "replaces", "backup",
     "options", "source", "noextract", "md5sums", "sha1sums", "sha224sums",
     "sha256sums", "sha384sums", "sha512sums", "validpgpkeys"}

\* A source list of one architecture
ArchSourceKeys == {"source_x86_64", "source_i686"}

\* Names in another case than the keys, and names that are no key
OtherKeys == {"Pkgname", "PKGVER", "URL", "Depends", "pkgnames", "sha", "foo"}

AllKeys ==
    ScalarKeys \cup NumberKeys \cup ArrayKeys \cup ArchSourceKeys
        \cup OtherKeys \cup {"pkgver", "arch"}

\* The value a line gives its key, as bash prints the variable
valueText(key) ==
    IF key = "pkgver" THEN Bytes("1.0")
    ELSE IF key \in NumberKeys THEN Bytes("1")
    ELSE IF key = "arch" THEN Bytes("([0]=\"any\")")
    ELSE IF key \in ArrayKeys \cup ArchSourceKeys THEN Bytes("([0]=\"v\")")
    ELSE Bytes("v")

keyLine(key) == Bytes(key) \o Bytes("=") \o valueText(key)

\* A line of every key, alone or after a line that assigns pkgname, and a
\* scalar key assigned an array
KeyInputs ==
    {keyLine(key) : key \in AllKeys}
        \cup {JoinLines(<<pkgnameLine, keyLine(key)>>) : key \in AllKeys}
        \cup {arrayPkgdescLine}

\* parse(input) has made the record and started the lexer
InitKeys ==
    /\ \E input \in KeyInputs : l = lex(input)
    /\ items = <<>>
    /\ recvd = <<>>
    /\ eofInArray = FALSE
    /\ pc = "parse"
    /\ local = NoLocal
    /\ pkgbuild = <<NewPKGBUILD>>
    /\ ret = NoReturn
    /\ cmp = NoCmp
    /\ dep = NoDep

SpecKeys == InitKeys /\ [][Next]_vars

\* The keys the specification lists, source_x86_64 and source_i686 standing
\* for the source list of an architecture
ListedKeys ==
    {"pkgname", "pkgver", "pkgrel", "pkgdir", "epoch", "pkgbase", "pkgdesc",
     "arch", "url", "license", "groups", "depends", "optdepends",
     "makedepends", "checkdepends", "provides", "conflicts", "replaces",
     "backup", "options", "install", "changelog", "source", "source_x86_64",
     "source_i686", "noextract", "md5sums", "sha1sums", "sha224sums",
     "sha256sums", "sha384sums", "sha512sums", "validpgpkeys"}

\* The field of the record each listed key names
KeyField(key) ==
    IF key = "url" THEN "URL"
    ELSE IF key \in ArchSourceKeys THEN "Source"
    ELSE CHOOSE f \in DOMAIN NewPKGBUILD :
             /\ Len(f) = Len(key)
             /\ SubSeq(f, 2, Len(f)) = SubSeq(key, 2, Len(key))

\* The value of the line of a key, as the field of the record holds it
KeyValue(key) ==
    IF key = "pkgver" THEN Bytes("1.0")
    ELSE IF key \in NumberKeys THEN 1
    ELSE IF key = "arch" THEN <<"Any">>
    ELSE IF key \in ArrayKeys \cup ArchSourceKeys THEN <<Bytes("v")>>
    ELSE Bytes("v")

\* The lexer has sent the token of a name that starts at offset p
NameTokenAt(p) ==
    \E k \in 1..Len(Sent) :
        /\ Sent[k].pos = p
        /\ Sent[k].typ \in DOMAIN fieldOf

\* The verdict of the claim on the line of key that starts at offset p,
\* the keys of Keys being the ones that are recognised
KeyRecognised(key, p, Keys) ==
    /\ NameTokenAt(p) <=> key \in Keys
    /\ key \in Keys =>
          /\ ret.parse = "ok"
          /\ pkgbuild[1][KeyField(key)] = KeyValue(key)

\* C28: once parse has returned for an input whose last line is key=...,
\* the tokenizer has sent a name token for that line exactly when key is,
\* letter for letter, one of the listed keys, and then the record holds
\* the value of the line in the field of that key.
C28_ListedKeys ==
    Returned =>
        \A key \in AllKeys :
            /\ l.input = keyLine(key) => KeyRecognised(key, 0, ListedKeys)
            /\ l.input = JoinLines(<<pkgnameLine, keyLine(key)>>) =>
                  KeyRecognised(key, Len(pkgnameLine) + 1, ListedKeys)

\* C29: tokens are produced one at a time, on demand. At every point of a
\* parse at most one token has been produced and not yet received, and the
\* tokenizer produces a token only when every earlier token has been
\* received: a step that produces a token starts with no token outstanding
\* and adds exactly that one token to the tokens produced so far.
C29_OneTokenOutstanding ==
    /\ [](Len(items) <= 1)
    /\ [][Sent' # Sent =>
            /\ items = <<>>
            /\ Len(items') = 1
            /\ recvd' = recvd]_vars

\* Two tokens have been received and the third is waiting to be received
C29_Witness ==
    /\ pc # "idle"
    /\ Len(recvd) >= 2
    /\ Len(items) = 1
    /\ ret.parse = "none"

\* C30: parse and parsePKGBUILD of the SRCINFO variant never use an
\* accumulator that was not created. For every input, the empty one, one
\* without a pkgbase line and one whose first field line comes before the
\* pkgbase line included, both return a record or an error, and an input
\* that assigns no pkgname ends in an error of parsePKGBUILD.
C30_AccumulatorCreated ==
    Returned =>
        /\ ret.parse \in {"ok", "error"}
        /\ ret.parsePKGBUILD \in {"ok", "error"}
        /\ ~Assigns(l.input, "pkgname") => ret.parsePKGBUILD = "error"

\* ------------------------- names: parseDependency and validPkgname, SpecName

\* The strings are made of at most MaxNameTokens of these: a letter and a
\* digit of a name, a hyphen, a dot, the three operator characters, a
\* capital letter, and the rune U+0161, whose low eight bits are those of
\* the letter a.
NameTokens ==
    {Bytes("a"), Bytes("1"), Bytes("-"), Bytes("."), Bytes("<"), Bytes(">"),
     Bytes("="), Bytes("A"), <<197, 161>>}

NameStrings == {Flatten(ts) : ts \in SeqsUpTo(NameTokens, MaxNameTokens)}

\* No call has been made on the string yet
InitName ==
    /\ \E s \in NameStrings :
          dep = [op |-> "name", s |-> s, result |-> <<>>, valid |-> "none"]
    /\ l = NoLexer
    /\ items = <<>>
    /\ recvd = <<>>
    /\ eofInArray = FALSE
    /\ pc = "idle"
    /\ local = NoLocal
    /\ pkgbuild = <<>>
    /\ ret = NoReturn
    /\ cmp = NoCmp

\* deps, err := parseDependency(dep, nil)
callParseDependencyOfString ==
    /\ dep.op = "name"
    /\ dep.result = <<>>
    /\ dep' = [dep EXCEPT !.result = <<parseDependency(dep.s, <<>>)>>]
    /\ UNCHANGED <<lexerVars, parserVars, cmp>>

\* validPkgname(name)
callValidPkgname ==
    /\ dep.op = "name"
    /\ dep.valid = "none"
    /\ dep' = [dep EXCEPT !.valid = BoolString(validPkgname(dep.s))]
    /\ UNCHANGED <<lexerVars, parserVars, cmp>>

NextName ==
    \/ callParseDependencyOfString
    \/ callValidPkgname

SpecName == InitName /\ [][NextName]_vars

\* A character of a name, by its code point: a-z, 0-9, @ . _ + -
IsNameRune(r) ==
    \/ r >= 97 /\ r <= 122
    \/ r >= 48 /\ r <= 57
    \/ r \in {64, 46, 95, 43, 45}

\* The name charset rule: not empty, no hyphen first, name characters only
NameRule(s) ==
    LET rs == Runes(s) IN
    /\ Len(rs) >= 1
    /\ rs[1] # 45
    /\ \A i \in 1..Len(rs) : IsNameRune(rs[i])

\* C31: for every string, the empty one and those that start with an
\* operator character included, parseDependency returns an error or a list
\* in which the Name of every entry is not empty, does not start with a
\* hyphen and has valid name characters only; a string that is only a name
\* gives one entry of that name with no minimum and no maximum.
C31_DependencyNames ==
    (dep.op = "name" /\ dep.result # <<>>) =>
        LET r == dep.result[1] IN
        /\ r.status \in {"ok", "error"}
        /\ r.status = "ok" =>
              \A k \in 1..Len(r.deps) : NameRule(r.deps[k].Name)
        /\ NameRule(dep.s) =>
              /\ r.status = "ok"
              /\ r.deps = <<NewDependency(dep.s)>>

RECURSIVE NameScanEnd(_, _)
\* The offset of the first character of s at or after p that is no name
\* character by its code point
NameScanEnd(s, p) ==
    IF p >= Len(s) THEN p
    ELSE LET n == DecodeRune(s, p) IN
         IF IsNameRune(n.r) THEN NameScanEnd(s, p + n.w) ELSE p

\* C34: validPkgname and the name scan of parseDependency judge every
\* character by its code point. validPkgname accepts no name that holds a
\* character other than a-z, 0-9, @ . _ + -, and the name parseDependency
\* takes from a string ends before the first such character; this holds
\* also of a character above U+00FF whose low eight bits are those of a
\* valid character, such as U+0161.
C34_FullCodePoint ==
    dep.op = "name" =>
        /\ dep.valid = "true" => NameRule(dep.s)
        /\ (dep.result # <<>> /\ dep.result[1].status = "ok") =>
              dep.result[1].deps[1].Name = Slice(dep.s, 0, NameScanEnd(dep.s, 0))

\* The goroutine of the lexer is held at the send of an item
LexerAtSend == items # <<>>

\* C32: whenever parse has returned, with a record or with an error, the
\* goroutine of the tokenizer has terminated or can still run to its end.
\* parse is the only receiver of the channel, so once it has returned a
\* send in progress is never completed: in no state in which parse has
\* returned is the lexer held at the send of an item.
C32_NoBlockedSend == Returned => ~LexerAtSend

\* ----------------------------------- inputs of any shape, SpecPieces

\* The pieces the inputs are made of: the characters the state functions
\* of the lexer tell apart, a letter, and a key
LexPieces ==
    {Bytes("("), Bytes(")"), Bytes("\""), Quote, Bytes("\\"), Bytes(" "),
     <<10>>, Bytes("="), Bytes("a"), Bytes("url")}

\* How an input starts: with the assignment of a key of each kind of
\* value, or with any piece
LexStarts ==
    {Bytes("url="), Bytes("pkgver="), Bytes("depends="), Bytes("arch="), <<>>}

\* Every short combination of the pieces after every start, and the
\* well-formed and ill-formed lines of KindInputs
LexInputs ==
    {start \o Flatten(ps) :
        start \in LexStarts, ps \in SeqsUpTo(LexPieces, MaxLexPieces)}
    \cup KindInputs

\* parse(input) has made the record and started the lexer
InitPieces ==
    /\ \E input \in LexInputs : l = lex(input)
    /\ items = <<>>
    /\ recvd = <<>>
    /\ eofInArray = FALSE
    /\ pc = "parse"
    /\ local = NoLocal
    /\ pkgbuild = <<NewPKGBUILD>>
    /\ ret = NoReturn
    /\ cmp = NoCmp
    /\ dep = NoDep

SpecPieces == InitPieces /\ [][Next]_vars

\* The type of the k-th item sent
TypeAt(k) == Sent[k].typ

IsNameType(t) == t \in DOMAIN fieldOf

\* The item before the k-th completes a key: a scalar value or the
\* terminator of an array
AfterCompleteKey(k) ==
    k = 1 \/ TypeAt(k - 1) \in {"itemValue", "itemArrayEnd"}

\* The item before the k-th leaves an array open: the name or an element
InsideKey(k) ==
    k > 1 /\ (IsNameType(TypeAt(k - 1)) \/ TypeAt(k - 1) = "itemArrayValue")

\* C33: the items sent so far follow the grammar the record builder
\* relies on. A name is followed at once by one scalar value, or by any
\* number of array elements and then one array terminator; values,
\* elements and terminators stand nowhere else; a name, the end of input
\* and an error stand only at the start or after a completed key; and
\* nothing follows the end of input or an error, so no stream has both.
C33_TokenGrammar ==
    \A k \in 1..Len(Sent) :
        /\ \/ IsNameType(TypeAt(k))
           \/ TypeAt(k) \in {"itemValue", "itemArrayValue", "itemArrayEnd",
                             "itemEOF", "itemError"}
        /\ TypeAt(k) = "itemValue" => (k > 1 /\ IsNameType(TypeAt(k - 1)))
        /\ TypeAt(k) \in {"itemArrayValue", "itemArrayEnd"} => InsideKey(k)
        /\ IsNameType(TypeAt(k)) => AfterCompleteKey(k)
        /\ TypeAt(k) \in {"itemEOF", "itemError"} =>
              (k = Len(Sent) /\ AfterCompleteKey(k))

\* A scalar and an array of two elements have been sent, and then the end
\* of the input
C33_Witness ==
    /\ Len(Sent) = 7
    /\ TypeAt(2) = "itemValue"
    /\ IsNameType(TypeAt(3))
    /\ TypeAt(4) = "itemArrayValue"
    /\ TypeAt(5) = "itemArrayValue"
    /\ TypeAt(6) = "itemArrayEnd"
    /\ TypeAt(7) = "itemEOF"

====
